---- MODULE Spec2Model ----
(***************************************************************************)
(* Intent classification engine of thinkdrop-phi4-service.                 *)
(*                                                                         *)
(* Numbers.  A score is held in thousandths (0.15 is 150); a product or a  *)
(* quotient is truncated to the thousandth.  NaN is the IEEE not-a-number  *)
(* that JavaScript produces for undefined * x, and Undefined is the value  *)
(* of a missing property.                                                  *)
(*                                                                         *)
(* Score maps.  A JavaScript object keeps its string keys in insertion     *)
(* order, and Object.entries, Object.values and for-in walk them in that   *)
(* order; a score map is therefore a sequence of [k, v] entries.           *)
(***************************************************************************)
EXTENDS Integers, Sequences, FiniteSets, TLC

VARIABLES
  initialized,       \* parser name -> this.initialized of that parser instance
  seedEmbeddings,    \* parser name -> this.seedEmbeddings (<< >> while null)
  isSemanticReady,   \* HybridIntentParser.isSemanticReady
  pc,                \* position of the request in parseIntent / parse
  parser,            \* the parser the request is served by
  message,           \* the caller's message: whether it carries the highlighted-text
                     \* marker, and the tests that succeed on the rest of it
  conversationHistory, \* options.conversationHistory
  options,           \* options of the request
  messageEmbedding,  \* embedding of the message
  zeroShotScores,    \* Original parser: the zero-shot scores by intent
  rawScores,         \* what the similarity scorer returned
  scores,            \* the score map object that parse boosts and returns
  entities,          \* entity list of the request
  intent,            \* result.intent
  confidence,        \* result.confidence
  resultParser,      \* result.parser
  error,             \* message of the error the caller receives, "" if none
  embedThrew,        \* the embedding call for the message has thrown
  calls,             \* the stages invoked for the request, in order
  localMessage,      \* parse: the variable message once the marker is removed
  messageToClassify, \* parse: the string that is embedded
  entitiesFailed,    \* extractEntities failed internally for the request
  config,            \* IntentParserFactory.config: which parsers are enabled
  instances,         \* parser name -> the factory holds a singleton instance of it
  initializationStatus, \* IntentParserFactory.initializationStatus
  failing,           \* the parsers whose initialize() throws (their model cannot load)
  initRuns,          \* parser name -> how often the body of initialize() was entered
  phase,             \* startServer: "start", "warming" (warmup awaited), "listening"
  warmup,            \* parser name -> state of the getter promise warmup() awaits
  tasks,             \* the getParser / parse calls in flight through the factory
  env,               \* process.env of the server: API_KEY and NODE_ENV
  req,               \* the HTTP request being served
  res,               \* the response sent for it: HTTP status and body.status
  stage,             \* the middleware or handler the request has reached
  parserCalls,       \* how often the handler has called parseIntent for the request
  route,             \* position of the /general.answer.stream handler
  events,            \* the server-sent events res.write has put on the response
  ended,             \* res.end() has been called
  lateWrites,        \* res.write calls made after res.end()
  fullAnswer,        \* the handler's fullAnswer, as the sequence of its tokens
  tokenCount,        \* the handler's tokenCount
  buffer,            \* generateAnswerStream: the incomplete last line
  upstream           \* the response stream of the model server, and its promise

instanceVars == << initialized, seedEmbeddings, isSemanticReady >>

inputVars == << parser, message, options, conversationHistory >>

httpVars == << env, req, res, stage, parserCalls >>

sseVars == << route, events, ended, lateWrites, fullAnswer, tokenCount, buffer, upstream >>

serverVars == << httpVars, sseVars >>

factoryVars ==
  << config, instances, initializationStatus, failing, initRuns, phase, warmup, tasks >>

localVars == << localMessage, messageToClassify, entitiesFailed >>

vars ==
  << initialized, seedEmbeddings, isSemanticReady, pc, parser, message, options,
     messageEmbedding, zeroShotScores, rawScores, scores, entities, intent, confidence,
     resultParser, error, embedThrew, calls, conversationHistory, localMessage,
     messageToClassify, entitiesFailed, config, instances, initializationStatus, failing,
     initRuns, phase, warmup, tasks, env, req, res, stage, parserCalls, route, events,
     ended, lateWrites, fullAnswer, tokenCount, buffer, upstream >>

\* the score 1.0
Scale == 1000

NaN == 10 * Scale * Scale

Undefined == NaN + 1

IsNum(x) == x # NaN /\ x # Undefined

\* a double of the magnitude of a score, multiplied or divided by a positive
\* factor, is never rounded to 0: a quotient below the scale keeps the smallest
\* magnitude the scale has
Quantum(x, q) == IF q = 0 /\ x # 0 THEN 1 ELSE q

\* x * (num / den) as JavaScript computes scores.k *= f
Mul(x, num, den) == IF IsNum(x) THEN Quantum(x, (x * num) \div den) ELSE NaN

\* x / y for y # 0
Div(x, y) == IF IsNum(x) /\ IsNum(y) THEN Quantum(x, (x * Scale) \div y) ELSE NaN

\* x < y; every comparison with NaN is false
Lt(x, y) == IsNum(x) /\ IsNum(y) /\ x < y

Gt(x, y) == Lt(y, x)

Abs(x) == IF x < 0 THEN 0 - x ELSE x

\* Math.abs(x - y)
AbsDiff(x, y) == IF IsNum(x) /\ IsNum(y) THEN Abs(x - y) ELSE NaN

\* a || 0 : NaN, undefined and 0 are falsy
OrZero(x) == IF IsNum(x) THEN x ELSE 0

Truthy(x) == IsNum(x) /\ x # 0

RECURSIVE MathMaxFrom(_, _, _)
MathMaxFrom(vals, i, acc) ==
  IF i > Len(vals) THEN acc
  ELSE IF ~IsNum(vals[i]) THEN NaN
  ELSE MathMaxFrom(vals, i + 1, IF vals[i] > acc THEN vals[i] ELSE acc)

NegInfinity == 0 - NaN

\* Math.max(...vals): NaN if any argument is NaN, -Infinity for no argument
MathMax(vals) == MathMaxFrom(vals, 1, NegInfinity)

(***************************************************************************)
(* Score maps                                                              *)
(***************************************************************************)
Keys(sc) == {sc[i].k : i \in 1..Len(sc)}

Has(sc, key) == key \in Keys(sc)

IndexOf(sc, key) == CHOOSE i \in 1..Len(sc) : sc[i].k = key

\* scores[key]
Get(sc, key) == IF Has(sc, key) THEN sc[IndexOf(sc, key)].v ELSE Undefined

\* scores[key] = v : an existing key keeps its place, a new key goes last
Put(sc, key, val) ==
  IF Has(sc, key)
  THEN [sc EXCEPT ![IndexOf(sc, key)] = [k |-> key, v |-> val]]
  ELSE Append(sc, [k |-> key, v |-> val])

\* delete scores[key]
Delete(sc, key) == SelectSeq(sc, LAMBDA e : e.k # key)

Values(sc) == [i \in 1..Len(sc) |-> sc[i].v]

\* a multiplication that never lifts a score above the current maximum
TimesCapped(sc, key, num, den) ==
  LET product == Mul(Get(sc, key), num, den)
      maxScore == MathMax(Values(sc))
  IN Put(sc, key, IF Gt(product, maxScore) THEN maxScore ELSE product)

\* a penalty that drops the candidate instead of scaling it
TimesOrZero(sc, key, num, den) ==
  Put(sc, key, IF num < den THEN 0 ELSE Mul(Get(sc, key), num, den))

\* scores[key] *= num/den
Times(sc, key, num, den) == Put(sc, key, Mul(Get(sc, key), num, den))

(***************************************************************************)
(* Array.prototype.sort as Node runs it on an array of fewer than 64       *)
(* elements: the leading run is found (and reversed when it is strictly    *)
(* descending under the comparator), the remaining elements are placed by  *)
(* binary insertion.  A comparator result of NaN counts as 0.              *)
(***************************************************************************)
CompareAscending(a, b) == IF IsNum(a.v) /\ IsNum(b.v) THEN a.v - b.v ELSE 0

\* (a, b) => b[1] - a[1]
Compare(a, b) == IF IsNum(a.v) /\ IsNum(b.v) THEN b.v - a.v ELSE 0

RECURSIVE RunEnd(_, _, _)
RunEnd(s, idx, desc) ==
  IF idx > Len(s) THEN idx - 1
  ELSE LET order == Compare(s[idx], s[idx - 1])
       IN IF (desc /\ order >= 0) \/ (~desc /\ order < 0)
          THEN idx - 1
          ELSE RunEnd(s, idx + 1, desc)

RECURSIVE FindSlot(_, _, _, _)
FindSlot(s, pivot, left, right) ==
  IF left >= right THEN left
  ELSE LET mid == left + ((right - left) \div 2)
       IN IF Compare(pivot, s[mid]) < 0
          THEN FindSlot(s, pivot, left, mid)
          ELSE FindSlot(s, pivot, mid + 1, right)

InsertAt(s, start) ==
  LET pivot == s[start]
      p == FindSlot(s, pivot, 1, start)
  IN [i \in 1..Len(s) |->
        IF i < p THEN s[i]
        ELSE IF i = p THEN pivot
        ELSE IF i <= start THEN s[i - 1]
        ELSE s[i]]

RECURSIVE BinaryInsertionSort(_, _)
BinaryInsertionSort(s, start) ==
  IF start > Len(s) THEN s ELSE BinaryInsertionSort(InsertAt(s, start), start + 1)

Sort(s) ==
  IF Len(s) < 2 THEN s
  ELSE LET desc == Compare(s[2], s[1]) < 0
           n == RunEnd(s, 3, desc)
           run == [i \in 1..Len(s) |-> IF desc /\ i <= n THEN s[n + 1 - i] ELSE s[i]]
       IN BinaryInsertionSort(run, n + 1)

(***************************************************************************)
(* DistilBertIntentParser: the decision resolver                           *)
(***************************************************************************)
\* the keys of seedExamples, in the order of the literal
SeedIntents ==
  << "memory_store", "memory_retrieve", "web_search", "general_knowledge",
     "command_execute", "command_guide", "screen_intelligence", "question",
     "greeting" >>

IntentLabels ==
  { "screen_intelligence", "command_execute", "command_guide", "memory_store",
    "memory_retrieve", "web_search", "general_knowledge", "question", "greeting" }

\* intentPriority[i] || 0
IntentPriority(i) ==
  CASE i = "screen_intelligence" -> 7
    [] i = "command_guide" -> 7
    [] i = "command_execute" -> 6
    [] i = "web_search" -> 5
    [] i = "question" -> 4
    [] i = "memory_retrieve" -> 3
    [] i = "command" -> 2
    [] i = "context" -> 1
    [] OTHER -> 0

ConfidenceFloor == 150

TieEpsilon == 100

DefaultIntentOther == "unknown"

DefaultIntent == "question"

BelowFloorNever(topScore) == FALSE

\* topScore < 0.15
BelowFloor(topScore) == Lt(topScore, ConfidenceFloor)

GetTopIntent(sc) ==
  LET sortedIntents == Sort(sc)
      topIntent == sortedIntents[1].k
      topScore == sortedIntents[1].v
      secondScore == IF Len(sortedIntents) >= 2 THEN OrZero(sortedIntents[2].v) ELSE 0
  IN IF BelowFloor(topScore) THEN DefaultIntent
     ELSE IF /\ Lt(AbsDiff(topScore, secondScore), TieEpsilon)
             /\ IntentPriority(sortedIntents[2].k) > IntentPriority(topIntent)
          THEN sortedIntents[2].k
          ELSE topIntent

(***************************************************************************)
(* MathUtils.cosineSimilarity and the similarity scorers.                  *)
(*                                                                         *)
(* A vector is a sequence of numbers; a component that is not a number     *)
(* (undefined, a string) is NaN, as it is in every product it enters.      *)
(* Math.sqrt is exact on the squared norms of the sample vectors, which    *)
(* are perfect squares.                                                    *)
(***************************************************************************)
RECURSIVE SqrtFrom(_, _)
SqrtFrom(n, r) == IF r * r <= n THEN r ELSE SqrtFrom(n, (r + (n \div r)) \div 2)

Sqrt(n) == IF ~IsNum(n) THEN NaN ELSE IF n = 0 THEN 0 ELSE SqrtFrom(n, n)

\* x + y and x * y on numbers, NaN as soon as one side is
Plus(x, y) == IF IsNum(x) /\ IsNum(y) THEN x + y ELSE NaN

Prod(x, y) == IF IsNum(x) /\ IsNum(y) THEN x * y ELSE NaN

\* vec[i]: undefined beyond the end
At(vec, i) == IF i <= Len(vec) THEN vec[i] ELSE Undefined

RECURSIVE Dot(_, _, _)
\* the sum of vecA[i] * vecB[i] for i from 0 below vecA.length
Dot(vecA, vecB, i) ==
  IF i > Len(vecA) THEN 0
  ELSE Plus(Prod(At(vecA, i), At(vecB, i)), Dot(vecA, vecB, i + 1))

RECURSIVE SquaredNorm(_, _, _)
\* the sum of vec[i] * vec[i] for i from 0 below n
SquaredNorm(vec, n, i) ==
  IF i > n THEN 0
  ELSE Plus(Prod(At(vec, i), At(vec, i)), SquaredNorm(vec, n, i + 1))

\* dotProduct / denominator, 0 when the denominator === 0
Quotient(vecA, vecB) ==
  LET dotProduct == Dot(vecA, vecB, 1)
      denominator == Prod(Sqrt(SquaredNorm(vecA, Len(vecA), 1)),
                          Sqrt(SquaredNorm(vecB, Len(vecA), 1)))
  IN IF denominator = 0 THEN 0
     ELSE IF IsNum(dotProduct) /\ IsNum(denominator)
          THEN (dotProduct * Scale) \div denominator
          ELSE NaN

\* MathUtils.cosineSimilarity throws 'Vectors must have the same length'
CosineThrows(vecA, vecB) == Len(vecA) # Len(vecB)

\* MathUtils.cosineSimilarity, for vectors it accepts
CosineSimilarity(vecA, vecB) == Quotient(vecA, vecB)

\* HybridIntentParser.cosineSimilarity: no check of the lengths
HybridCosineSimilarity(vecA, vecB) == Quotient(vecA, vecB)

\* the cached seed vectors are sequences of [k |-> intent, vecs |-> vectors]
Similarities(vecs, emb) == [j \in 1..Len(vecs) |-> CosineSimilarity(emb, vecs[j])]

ScorerThrows(seeds, emb) ==
  \E i \in 1..Len(seeds) : \E j \in 1..Len(seeds[i].vecs) :
     CosineThrows(emb, seeds[i].vecs[j])

CalculateIntentScoresFirst(seeds, emb) ==
  [i \in 1..Len(seeds) |->
     [k |-> seeds[i].k, v |-> Similarities(seeds[i].vecs, emb)[1]]]

\* DistilBertIntentParser.calculateIntentScores
CalculateIntentScores(seeds, emb) ==
  [i \in 1..Len(seeds) |->
     [k |-> seeds[i].k, v |-> MathMax(Similarities(seeds[i].vecs, emb))]]

\* NaturalLanguageIntentParser.calculateEmbeddingScores
CalculateEmbeddingScores(seeds, emb) ==
  [i \in 1..Len(seeds) |->
     [k |-> seeds[i].k, v |-> MathMax(Similarities(seeds[i].vecs, emb))]]

(***************************************************************************)
(* DistilBertIntentParser: the heuristic booster                           *)
(*                                                                         *)
(* A message is known to the booster only through the outcome of its       *)
(* regular expressions and string tests; message.feats is the set of the   *)
(* tests that succeed on the message:                                      *)
(*   questionWord  /^(what|when|...|did)/       whWord  /^(what|...|which)/*)
(*   questionMark  trim().endsWith('?')         storageVerb  remember|...  *)
(*   actionVerb    /^(open|close|...|set)/      factual  who is|what is|.. *)
(*   currentEvent, leadership, price, weather, news, sports                *)
(*   codeRequest, programming                                              *)
(*   fewWords      split(' ').length <= 5       greetingWord  /^(hi|...)/  *)
(*   highlighted   '[Selected text' ... or /\[.*text.*from.*\]/i           *)
(***************************************************************************)
Features ==
  { "questionWord", "whWord", "questionMark", "storageVerb", "actionVerb",
    "factual", "currentEvent", "leadership", "price", "weather", "news",
    "sports", "codeRequest", "programming", "fewWords", "greetingWord",
    "highlighted" }

\* the three patterns anchored at the start of the message exclude one another,
\* and every whWord alternative is a questionWord alternative
ConsistentFeatures(f) ==
  /\ ("whWord" \in f => "questionWord" \in f)
  /\ Cardinality(f \cap {"questionWord", "actionVerb", "greetingWord"}) <= 1

HasDatetimeOrPerson(ents) ==
  \E i \in 1..Len(ents) : ents[i].type \in {"datetime", "person"}

\* the condition of the n-th rule, in source order
Trigger(n, ents, f) ==
  LET hasQuestionWord == "questionWord" \in f
      hasQuestionMark == "questionMark" \in f
      isQuestion == hasQuestionWord \/ hasQuestionMark
      hasStorageVerb == "storageVerb" \in f
  IN CASE n = 1 -> HasDatetimeOrPerson(ents) /\ hasStorageVerb /\ ~isQuestion
       [] n = 2 -> isQuestion /\ ~hasStorageVerb
       [] n = 3 -> "whWord" \in f /\ HasDatetimeOrPerson(ents)
       [] n = 4 -> "actionVerb" \in f
       [] n = 5 -> hasQuestionWord
       [] n = 6 -> "currentEvent" \in f
       [] n = 7 -> "leadership" \in f /\ (hasQuestionWord \/ hasQuestionMark)
       [] n = 8 -> "price" \in f
       [] n = 9 -> "weather" \in f
       [] n = 10 -> "news" \in f
       [] n = 11 -> "sports" \in f
       [] n = 12 -> "codeRequest" \in f /\ "programming" \in f
       [] n = 13 -> hasQuestionMark
       [] n = 14 -> "fewWords" \in f /\ "greetingWord" \in f
       [] n = 15 -> "highlighted" \in f

\* what the n-th rule does to the score map when its condition holds
Effect(n, sc, f) ==
  CASE n = 1 -> Times(sc, "memory_store", 12, 10)
    [] n = 2 -> Times(sc, "memory_store", 3, 10)
    [] n = 3 -> Times(sc, "memory_retrieve", 115, 100)
    [] n = 4 -> Times(sc, "command", 125, 100)
    [] n = 5 -> IF "factual" \in f
                THEN Times(Times(sc, "web_search", 13, 10), "question", 115, 100)
                ELSE Times(sc, "question", 12, 10)
    [] n = 6 -> Times(sc, "web_search", 15, 10)
    [] n = 7 -> Times(sc, "web_search", 14, 10)
    [] n = 8 -> Times(sc, "web_search", 145, 100)
    [] n = 9 -> Times(sc, "web_search", 16, 10)
    [] n = 10 -> Times(sc, "web_search", 15, 10)
    [] n = 11 -> Times(sc, "web_search", 14, 10)
    [] n = 12 -> Times(Times(Times(sc, "web_search", 16, 10), "command", 5, 10),
                       "question", 7, 10)
    [] n = 13 -> Times(Times(sc, "question", 11, 10), "web_search", 105, 100)
    [] n = 14 -> Times(sc, "greeting", 13, 10)
    [] n = 15 -> Times(Times(Put(sc, "screen_intelligence", 1), "question", 3, 1),
                       "web_search", 25, 10)

\* the question-mark rule applied whatever the message
RuleUnguarded(n, sc, ents, f) ==
  IF n = 13 \/ Trigger(n, ents, f) THEN Effect(n, sc, f) ELSE sc

\* one if-block of applyEntityBoosting
Rule(n, sc, ents, f) == IF Trigger(n, ents, f) THEN Effect(n, sc, f) ELSE sc

RECURSIVE ApplyRules(_, _, _, _)
ApplyRules(n, sc, ents, f) ==
  IF n > 15 THEN sc ELSE ApplyRules(n + 1, Rule(n, sc, ents, f), ents, f)

\* if (maxScore > 1) every score is divided by maxScore
Normalize(sc) ==
  LET maxScore == MathMax(Values(sc))
  IN IF Gt(maxScore, Scale)
     THEN [i \in 1..Len(sc) |-> [k |-> sc[i].k, v |-> Div(sc[i].v, maxScore)]]
     ELSE sc

ApplyEntityBoosting(sc, ents, msg) == Normalize(ApplyRules(1, sc, ents, msg.feats))

(***************************************************************************)
(* NaturalLanguageIntentParser (the Original parser)                       *)
(*                                                                         *)
(* message.feats for this parser: memoryKeyword /remember|save|note|don't  *)
(* forget/, wh4 /^(what|when|where|who)/, action6 /^(open|...|stop)/,      *)
(* questionMark.                                                           *)
(***************************************************************************)
OriginalIntents ==
  << "memory_store", "memory_retrieve", "command", "question", "greeting", "context" >>

OriginalFeatures == {"memoryKeyword", "wh4", "action6", "questionMark"}

OriginalRule(n, sc, ents, f) ==
  CASE n = 1 -> IF Len(ents) > 0 /\ "memoryKeyword" \in f
                THEN Times(sc, "memory_store", 115, 100) ELSE sc
    [] n = 2 -> IF Len(ents) > 0 /\ "wh4" \in f
                THEN Times(sc, "memory_retrieve", 11, 10) ELSE sc
    [] n = 3 -> IF "action6" \in f THEN Times(sc, "command", 12, 10) ELSE sc
    [] n = 4 -> IF "questionMark" \in f THEN Times(sc, "question", 11, 10) ELSE sc

OriginalApplyEntityBoosting(sc, ents, f) ==
  Normalize(OriginalRule(4, OriginalRule(3, OriginalRule(2, OriginalRule(1, sc, ents, f),
                                                         ents, f), ents, f), ents, f))

\* 60% zero-shot, 40% embedding, then the boosting
CombineScores(zs, es, ents, f) ==
  LET combinedScores ==
        [i \in 1..Len(OriginalIntents) |->
           [k |-> OriginalIntents[i],
            v |-> Plus(Mul(OrZero(Get(zs, OriginalIntents[i])), 6, 10),
                       Mul(OrZero(Get(es, OriginalIntents[i])), 4, 10))]]
  IN OriginalApplyEntityBoosting(combinedScores, ents, f)

RECURSIVE TopFrom(_, _, _, _)
\* for (const [intent, score] of Object.entries(scores)) if (score > topScore) ...
TopFrom(sc, i, topIntent, topScore) ==
  IF i > Len(sc) THEN topIntent
  ELSE IF Gt(sc[i].v, topScore)
       THEN TopFrom(sc, i + 1, sc[i].k, sc[i].v)
       ELSE TopFrom(sc, i + 1, topIntent, topScore)

OriginalGetTopIntent(sc) == TopFrom(sc, 1, "question", 0)

(***************************************************************************)
(* HybridIntentParser                                                      *)
(*                                                                         *)
(* message.feats for this parser, the tests of enhanceWithRules: memory,   *)
(* whQuestion (/^(what|when|where|who|which)/ and a '?'), action,          *)
(* webPrefix, webTopic, metaQuestion, questionLike (#Question or a '?'),   *)
(* greeting, context.                                                      *)
(***************************************************************************)
HybridIntents ==
  << "memory_store", "memory_retrieve", "command", "web_search", "question",
     "greeting", "context" >>

HybridFeatures ==
  { "memory", "whQuestion", "action", "webPrefix", "webTopic", "metaQuestion",
    "questionLike", "greeting", "context" }

ConsistentHybridFeatures(f) ==
  /\ ("whQuestion" \in f => "questionLike" \in f)
  /\ ("action" \in f => f \cap {"whQuestion", "webPrefix", "greeting"} = {})
  /\ ("greeting" \in f => f \cap {"whQuestion", "webPrefix", "action"} = {})

\* the similarity to the first seed text of every intent
ClassifyWithEmbedding(seedArrays, embedding) ==
  [i \in 1..Len(seedArrays) |->
     [k |-> seedArrays[i].k,
      v |-> HybridCosineSimilarity(embedding, seedArrays[i].vecs[1])]]

HybridGetTopIntent(sc) == TopFrom(sc, 1, "web_search", 0)

Bonus(f, name, amount) == IF name \in f THEN amount ELSE 0

EnhanceWithRules(f) ==
  << [k |-> "memory_store", v |-> Bonus(f, "memory", 600)],
     [k |-> "memory_retrieve", v |-> Bonus(f, "whQuestion", 500)],
     [k |-> "command", v |-> Bonus(f, "action", 700)],
     [k |-> "web_search", v |-> Bonus(f, "webPrefix", 700) + Bonus(f, "webTopic", 300)],
     [k |-> "question",
      v |-> IF "metaQuestion" \in f THEN 700 ELSE Bonus(f, "questionLike", 200)],
     [k |-> "greeting", v |-> Bonus(f, "greeting", 800)],
     [k |-> "context", v |-> Bonus(f, "context", 600)] >>

\* parseWithFallback: bayesIntent and bayesConfidence are what the Bayes
\* classifier answers; the result is [intent, confidence, scores]
ParseWithFallback(bayesIntent, bayesConfidence, f) ==
  LET enhancedScores == EnhanceWithRules(f)
      finalIntent == IF Gt(Get(enhancedScores, bayesIntent), bayesConfidence)
                     THEN HybridGetTopIntent(enhancedScores)
                     ELSE bayesIntent
      own == OrZero(Get(enhancedScores, finalIntent))
  IN [intent |-> finalIntent,
      confidence |-> IF own > bayesConfidence THEN own ELSE bayesConfidence,
      scores |-> enhancedScores]

(***************************************************************************)
(* FastIntentParser                                                        *)
(*                                                                         *)
(* message.feats for this parser: the keywords the message includes        *)
(* ("store:remember" is includes('remember'), and so on for a sample of    *)
(* the keyword lists), the verbs compromise finds ("verb:have", ...), its  *)
(* tags ("#Question", ...) and the other tests of the score functions.     *)
(***************************************************************************)
\* this.patterns: a sample of every keyword and verb list; for 'question' the
\* keywords are tested with startsWith
Patterns ==
  [memory_store |-> [keywords |-> {"store:remember", "store:save"}, verbs |-> {"verb:have"}],
   memory_retrieve |-> [keywords |-> {"retrieve:what", "retrieve:when"},
                        verbs |-> {"verb:have", "verb:is"}],
   command |-> [keywords |-> {"command:open", "command:take"}, verbs |-> {"verb:open"}],
   question |-> [keywords |-> {"startsWhat", "startsExplain"}, verbs |-> {}],
   greeting |-> [keywords |-> {"greeting:hello", "greeting:hi"}, verbs |-> {}],
   context |-> [keywords |-> {"context:earlier", "context:said"}, verbs |-> {}]]

FastFeatures ==
  UNION {Patterns[i].keywords \cup Patterns[i].verbs : i \in DOMAIN Patterns}
    \cup { "#FutureTime", "#Date", "#Imperative", "#Person", "#Question", "#PastTense",
           "includesQuestionMark", "endsQuestionMark", "appName", "fourWords",
           "fiveWords", "greetingStart", "conversationWord", "whatDid", "personal" }

\* a message that starts with 'what' includes it, one that ends with '?' includes it,
\* one of at most four words has at most five, 'said' is a conversation word, the
\* verb 'open' is the keyword 'open', a greeting start is a greeting keyword, and a
\* message starts with one word
ConsistentFastFeatures(f) ==
  /\ ("startsWhat" \in f => "retrieve:what" \in f)
  /\ ("endsQuestionMark" \in f => "includesQuestionMark" \in f)
  /\ ("fourWords" \in f => "fiveWords" \in f)
  /\ ("context:said" \in f => "conversationWord" \in f)
  /\ ("verb:open" \in f => "command:open" \in f)
  /\ ("whatDid" \in f => "retrieve:what" \in f)
  /\ ("greetingStart" \in f => f \cap Patterns.greeting.keywords # {})
  /\ ~({"startsWhat", "startsExplain"} \subseteq f)

\* score += amount for every test of the set that succeeds
PerMatch(f, tests, amount) == amount * Cardinality(f \cap tests)

\* score += amount if the condition holds
When(cond, amount) == IF cond THEN amount ELSE 0

Min(x, y) == IF x < y THEN x ELSE y

Max(x, y) == IF x > y THEN x ELSE y

ScoreMemoryStore(f) ==
  Min(PerMatch(f, Patterns.memory_store.keywords, 300)
        + When(f \cap {"#FutureTime", "#Date"} # {}, 200)
        + PerMatch(f, Patterns.memory_store.verbs, 150)
        + When("#Imperative" \in f, 200)
        + When("#Person" \in f, 150),
      Scale)

ScoreMemoryRetrieve(f) ==
  Max(0, Min(PerMatch(f, Patterns.memory_retrieve.keywords, 300)
               + When(f \cap {"#Question", "includesQuestionMark"} # {}, 250)
               + PerMatch(f, Patterns.memory_retrieve.verbs, 100)
               + When(f \cap {"#Date", "retrieve:when"} # {}, 200)
               - When("store:remember" \in f /\ ~("includesQuestionMark" \in f), 300),
             Scale))

ScoreCommand(f) ==
  Min(PerMatch(f, Patterns.command.keywords, 400)
        + PerMatch(f, Patterns.command.verbs, 300)
        + When("#Imperative" \in f, 200)
        + When("appName" \in f, 200)
        + When("fourWords" \in f /\ "#Imperative" \in f, 150),
      Scale)

ScoreQuestion(f) ==
  Max(0, Min(PerMatch(f, Patterns.question.keywords, 350)
               + When("#Question" \in f, 300)
               + When("includesQuestionMark" \in f, 250)
               + When("startsWhat" \in f, 200)
               + When("endsQuestionMark" \in f, 200)
               - When("personal" \in f, 300),
             Scale))

ScoreGreeting(f) ==
  LET keywords == PerMatch(f, Patterns.greeting.keywords, 500)
  IN Min(keywords
           + When("fiveWords" \in f /\ keywords > 0, 300)
           + When("greetingStart" \in f, 400),
         Scale)

ScoreContext(f) ==
  Min(PerMatch(f, Patterns.context.keywords, 350)
        + When("#PastTense" \in f, 200)
        + When("conversationWord" \in f, 200)
        + When("whatDid" \in f, 250),
      Scale)

\* the scores object of FastIntentParser.parse
FastScores(f) ==
  << [k |-> "memory_store", v |-> ScoreMemoryStore(f)],
     [k |-> "memory_retrieve", v |-> ScoreMemoryRetrieve(f)],
     [k |-> "command", v |-> ScoreCommand(f)],
     [k |-> "question", v |-> ScoreQuestion(f)],
     [k |-> "greeting", v |-> ScoreGreeting(f)],
     [k |-> "context", v |-> ScoreContext(f)] >>

RECURSIVE TopScoreFrom(_, _, _)
TopScoreFrom(sc, i, topScore) ==
  IF i > Len(sc) THEN topScore
  ELSE TopScoreFrom(sc, i + 1, IF Gt(sc[i].v, topScore) THEN sc[i].v ELSE topScore)

FastFloor == 300

\* FastIntentParser.getTopIntent
FastGetTopIntent(sc) ==
  IF Lt(TopScoreFrom(sc, 1, 0), FastFloor) THEN "question"
  ELSE TopFrom(sc, 1, "question", 0)

FastDefaultConfidence == 500

FastConfidenceRaw(sc, top) == Get(sc, top)

\* scores[intent] || 0.5
FastConfidence(sc, top) ==
  IF Truthy(Get(sc, top)) THEN Get(sc, top) ELSE FastDefaultConfidence

(***************************************************************************)
(* The state of a request before it starts                                 *)
(***************************************************************************)
ParserNames == {"distilbert", "original", "hybrid", "fast"}

NoMessage == [marker |-> FALSE, feats |-> {}]

NoOptions == [includeEntities |-> TRUE, excludeScreenIntelligence |-> FALSE]

\* a string to embed: the context taken from the history ("" if none) and the message
NoText == [context |-> << >>, body |-> NoMessage]

\* the configuration when no ENABLE_* variable is set
DefaultConfig ==
  [useDistilBert |-> TRUE, useHybrid |-> FALSE, useFast |-> FALSE, useOriginal |-> FALSE]

TaskIds == {1, 2}

\* a getParser / parse call that has not been made
IdleTask ==
  [pc |-> "idle", name |-> "", returned |-> "", inGetter |-> FALSE, i |-> 0, j |-> 0,
   sawInitialized |-> FALSE, intent |-> "", confidence |-> Undefined]

\* new IntentParserFactory() under configuration cfg, in a process where the
\* initialize() of the parsers of the set broken throws
FactoryConstructed(cfg, broken) ==
  /\ config = cfg
  /\ instances = [p \in ParserNames |-> FALSE]
  /\ initializationStatus = [p \in ParserNames |-> "not_started"]
  /\ failing = broken
  /\ initRuns = [p \in ParserNames |-> 0]
  /\ phase = "start"
  /\ warmup = [p \in ParserNames |-> "none"]
  /\ tasks = [t \in TaskIds |-> IdleTask]

NoHttpRequest ==
  [origin |-> "none", overLimit |-> FALSE, authorization |-> "none", envelope |-> "valid",
   payload |-> "undefined", message |-> "undefined"]

NoResponse == [code |-> 0, status |-> ""]

NoUpstream ==
  [mode |-> "none", text |-> << >>, closing |-> "end", closed |-> FALSE, settled |-> "pending"]

\* no /general.answer.stream request is being served
StreamIdle ==
  /\ route = "idle"
  /\ events = << >>
  /\ ended = FALSE
  /\ lateWrites = 0
  /\ fullAnswer = << >>
  /\ tokenCount = 0
  /\ buffer = << >>
  /\ upstream = NoUpstream

\* the server with no HTTP request in it
ServerIdle ==
  /\ StreamIdle
  /\ env = [apiKey |-> "unset", nodeEnv |-> "development"]
  /\ req = NoHttpRequest
  /\ res = NoResponse
  /\ stage = "idle"
  /\ parserCalls = 0

InstancesConstructed ==
  /\ initialized = [p \in ParserNames |-> FALSE]
  /\ seedEmbeddings = [p \in ParserNames |-> << >>]
  /\ isSemanticReady = FALSE

Constructed ==
  /\ InstancesConstructed
  /\ FactoryConstructed(DefaultConfig, {})

NoRequest ==
  /\ parser = ""
  /\ message = NoMessage
  /\ options = NoOptions
  /\ messageEmbedding = << >>
  /\ zeroShotScores = << >>
  /\ rawScores = << >>
  /\ entities = << >>
  /\ resultParser = ""
  /\ error = ""
  /\ embedThrew = FALSE
  /\ calls = << >>
  /\ conversationHistory = << >>
  /\ localMessage = NoMessage
  /\ messageToClassify = NoText
  /\ entitiesFailed = FALSE

(***************************************************************************)
(* The resolver on its own: getTopIntent(scores) for score maps of the     *)
(* shapes the booster hands over.                                          *)
(***************************************************************************)
ScoreSamples == {0 - 200, 149, 150, 240, 750, 800, 900, 1800}

BaseSamples == {0, 760}

\* intent a scores va, intent b scores vb, every other seed intent scores base
TwoPeaks(a, va, b, vb, base) ==
  [i \in 1..Len(SeedIntents) |->
     [k |-> SeedIntents[i],
      v |-> IF SeedIntents[i] = a THEN va
            ELSE IF SeedIntents[i] = b THEN vb ELSE base]]

\* what the exclusion step and the rules on command and screen_intelligence
\* leave behind
Shaped(sc, shape) ==
  CASE shape = "plain" -> sc
    [] shape = "command" -> Put(sc, "command", NaN)
    [] shape = "excluded" -> Delete(sc, "screen_intelligence")
    [] shape = "readded" ->
         Put(Put(Delete(sc, "screen_intelligence"), "command", NaN),
             "screen_intelligence", 1)
    [] shape = "only" ->
         SelectSeq(sc, LAMBDA e : e.v \in ScoreSamples)

ResolverInputs ==
  { Shaped(TwoPeaks(a, va, b, vb, base), shape) :
      a \in IntentLabels, b \in IntentLabels, va \in ScoreSamples, vb \in ScoreSamples,
      base \in BaseSamples, shape \in {"plain", "command", "excluded", "readded"} }
  \cup
  { Shaped(TwoPeaks(a, va, b, vb, 1), "only") :
      a \in IntentLabels, b \in IntentLabels, va \in ScoreSamples, vb \in ScoreSamples }

InitResolver ==
  /\ ServerIdle
  /\ Constructed
  /\ NoRequest
  /\ pc = "resolve"
  /\ scores \in ResolverInputs
  /\ intent = ""
  /\ confidence = Undefined

Resolve ==
  /\ pc = "resolve"
  /\ intent' = GetTopIntent(scores)
  /\ confidence' = Get(scores, intent')
  /\ pc' = "resolved"
  /\ UNCHANGED << instanceVars, localVars, inputVars, messageEmbedding, zeroShotScores, rawScores,
                  scores, entities, resultParser, error, embedThrew, calls >>
  /\ UNCHANGED << factoryVars, serverVars >>

NextResolver == Resolve

SpecResolver == InitResolver /\ [][NextResolver]_vars

(***************************************************************************)
(* Reference notions the claims are stated with                            *)
(***************************************************************************)
NumericIdx(sc) == {i \in 1..Len(sc) : IsNum(sc[i].v)}

\* an entry no other entry beats: the highest score, the first of equals
IsTop(sc, i) ==
  /\ i \in NumericIdx(sc)
  /\ \A j \in NumericIdx(sc) : sc[j].v < sc[i].v \/ (sc[j].v = sc[i].v /\ j >= i)

TopIdx(sc) == CHOOSE i \in NumericIdx(sc) : IsTop(sc, i)

\* the best entry once the top entry is set aside
SecondIdx(sc) ==
  LET t == TopIdx(sc)
  IN CHOOSE i \in NumericIdx(sc) \ {t} :
       \A j \in NumericIdx(sc) \ {t} : sc[j].v < sc[i].v \/ (sc[j].v = sc[i].v /\ j >= i)

\* C1: whenever the highest score of the score map is below 0.15, getTopIntent
\* returns 'question', whichever intent scored highest.
C1_FloorReturnsQuestion ==
  (pc = "resolved" /\ NumericIdx(scores) # {} /\ scores[TopIdx(scores)].v < 150)
     => intent = "question"

\* a resolved map whose best intent is not 'question', outranks 'question' in the
\* priority table and scores below the floor
C1_Witness ==
  /\ pc = "resolved"
  /\ NumericIdx(scores) # {}
  /\ scores[TopIdx(scores)].v < 150
  /\ scores[TopIdx(scores)].v > 0
  /\ scores[TopIdx(scores)].k = "command_guide"
  /\ intent = "question"

\* C2: with a top score of at least 0.15, the second-place intent is returned
\* exactly when the gap to it is below 0.10 and its priority is strictly higher
\* than the top intent's; otherwise the top-scoring intent is returned.
C2_TieBreakByPriority ==
  (pc = "resolved" /\ NumericIdx(scores) # {} /\ scores[TopIdx(scores)].v >= 150)
     => LET top == scores[TopIdx(scores)]
        IN IF Cardinality(NumericIdx(scores)) >= 2
           THEN LET second == scores[SecondIdx(scores)]
                IN intent = IF /\ top.v - second.v < 100
                               /\ IntentPriority(second.k) > IntentPriority(top.k)
                            THEN second.k ELSE top.k
           ELSE intent = top.k

\* scores 0.80 and 0.75, the lower-scored intent has the higher priority and wins
C2_Witness ==
  /\ pc = "resolved"
  /\ Cardinality(NumericIdx(scores)) >= 2
  /\ scores[TopIdx(scores)].v = 800
  /\ scores[SecondIdx(scores)].v = 750
  /\ scores[TopIdx(scores)].k = "memory_store"
  /\ scores[SecondIdx(scores)].k = "web_search"
  /\ intent = "web_search"

\* C3: for every non-empty score map the returned intent is a key of the map or
\* the default intent 'question', and it is one of the configured intent labels.
C3_IntentIsKeyOrDefault ==
  pc = "resolved" => /\ intent \in Keys(scores) \cup {"question"}
                     /\ intent \in IntentLabels

\* a map without the key 'question' that resolves to one of its keys, and one
\* carrying the extra key 'command' next to it
C3_Witness ==
  /\ pc = "resolved"
  /\ Has(scores, "command")
  /\ intent \in Keys(scores)
  /\ intent # "question"

(***************************************************************************)
(* The booster on its own: applyEntityBoosting(scores, entities, message), *)
(* and a second application to the map it has already boosted.             *)
(***************************************************************************)
MaxTriggers == 2

\* the messages: every consistent outcome of the tests with at most
\* MaxTriggers of them succeeding
FeatureSets ==
  {f \in SUBSET Features : Cardinality(f) <= MaxTriggers /\ ConsistentFeatures(f)}

Entity(t) == [type |-> t]

EntityLists ==
  { << >>, << Entity("person") >>, << Entity("datetime") >>, << Entity("location") >>,
    << Entity("location"), Entity("person") >> }

RawSamples == {0 - 200, 46, 800, 1600}

BoosterInputs ==
  { TwoPeaks(a, va, a, va, base) :
      a \in {"web_search", "question", "memory_store", "greeting"},
      va \in RawSamples, base \in {0, 300} }
  \cup { Delete(TwoPeaks("web_search", 800, "question", 46, 300), "screen_intelligence") }

InitBooster ==
  /\ ServerIdle
  /\ Constructed
  /\ parser = ""
  /\ options = NoOptions
  /\ messageEmbedding = << >>
  /\ zeroShotScores = << >>
  /\ resultParser = ""
  /\ error = ""
  /\ embedThrew = FALSE
  /\ calls = << >>
  /\ conversationHistory = << >>
  /\ localMessage = NoMessage
  /\ messageToClassify = NoText
  /\ entitiesFailed = FALSE
  /\ pc = "boost"
  /\ scores \in BoosterInputs
  /\ rawScores = scores
  /\ message \in {[marker |-> FALSE, feats |-> f] : f \in FeatureSets}
  /\ entities \in EntityLists
  /\ intent = ""
  /\ confidence = Undefined

Boost ==
  /\ pc = "boost"
  /\ scores' = ApplyEntityBoosting(scores, entities, message)
  /\ pc' = "boosted"
  /\ UNCHANGED << instanceVars, localVars, inputVars, messageEmbedding, zeroShotScores, rawScores,
                  entities, intent, confidence, resultParser, error, embedThrew, calls >>
  /\ UNCHANGED << factoryVars, serverVars >>

BoostAgain ==
  /\ pc = "boosted"
  /\ scores' = ApplyEntityBoosting(scores, entities, message)
  /\ pc' = "reboosted"
  /\ UNCHANGED << instanceVars, localVars, inputVars, messageEmbedding, zeroShotScores, rawScores,
                  entities, intent, confidence, resultParser, error, embedThrew, calls >>
  /\ UNCHANGED << factoryVars, serverVars >>

NextBooster == Boost \/ BoostAgain

SpecBooster == InitBooster /\ [][NextBooster]_vars

NoRuleTriggered(ents, f) == \A n \in 1..15 : ~Trigger(n, ents, f)

\* C8 as claimed: boost(boost(s)) = boost(s) for every score map, text and
\* entity list.
C8_BoostIdempotent == [][(pc = "boosted" /\ pc' = "reboosted") => scores' = scores]_vars

\* C8 as amended: boost(boost(s)) = boost(s) whenever the text and the entities
\* trigger no rule; only the closing normalisation is idempotent.
C8_IdempotentWithoutRules ==
  [][(pc = "boosted" /\ pc' = "reboosted" /\ NoRuleTriggered(entities, message.feats))
       => scores' = scores]_vars

\* a second application with no rule triggered, to a map that the first
\* application had to normalise
C8_Witness ==
  /\ pc = "reboosted"
  /\ NoRuleTriggered(entities, message.feats)
  /\ message.feats # {}
  /\ entities # << >>
  /\ Get(rawScores, "web_search") = 1600
  /\ Get(scores, "web_search") = Scale
  /\ Get(scores, "question") > 0

(***************************************************************************)
(* A request through IntentParsingService.parseIntent                      *)
(*                                                                         *)
(* The embedding model, the zero-shot classifier, the entity extractors    *)
(* and the Bayes classifier are collaborators: what they answer is drawn   *)
(* from sample sets.  The model of the embedder that a parser loads        *)
(* decides the seed vectors; two such models are considered.               *)
(***************************************************************************)
MaxSeeds == 2

Pool ==
  << <<1, 0, 0>>, <<0, 1, 0>>, <<0, 0, 1>>, <<3, 4, 0>>, <<0, 3, 4>>, <<24, 0 - 7, 0>>,
     <<2, 3, 6>>, <<0 - 1, 0, 0>> >>

Worlds == {"spread", "far"}

\* the embedding of the j-th seed example of the i-th intent
SeedVector(w, name, i, j) ==
  IF w = "spread" THEN Pool[((i + 3 * (j - 1)) % Len(Pool)) + 1]
  ELSE IF name = "web_search" /\ j = 1 THEN <<24, 0 - 7, 0>>
  ELSE IF name = "question" /\ j = 1 THEN <<0, 0, 1>>
  ELSE IF j % 2 = 1 THEN <<0 - 1, 0, 0>> ELSE <<0, 0 - 1, 0>>

DistilSeedCount(name) == MaxSeeds

OriginalSeedCount(name) == 3

HybridSeedCount(name) == IF name = "web_search" THEN 3 ELSE 1

SeedCount(p, name) ==
  CASE p = "distilbert" -> DistilSeedCount(name)
    [] p = "original" -> OriginalSeedCount(name)
    [] p = "hybrid" -> HybridSeedCount(name)

\* the seed vectors of parser p, one entry per intent in the order of its seed table
SeedTable(w, names, p) ==
  [i \in 1..Len(names) |->
     [k |-> names[i],
      vecs |-> [j \in 1..SeedCount(p, names[i]) |-> SeedVector(w, names[i], i, j)]]]

\* what the embedder answers for a message: four well-formed vectors, one with
\* a component that is not a number, one of another length
WellFormed(v) == Len(v) = 3 /\ \A i \in 1..Len(v) : IsNum(v[i])

EmbeddingOutputs ==
  { <<12, 35, 0>>, <<1, 0, 0>>, <<0 - 12, 0 - 35, 0>>, <<0, 0, 0>>,
    <<NaN, 0, 0>>, <<1, 0>> }

ZeroShotPeak(a) ==
  [i \in 1..Len(OriginalIntents) |->
     [k |-> OriginalIntents[i], v |-> IF OriginalIntents[i] = a THEN 700 ELSE 60]]

ZeroShotOutputs == {ZeroShotPeak("question"), ZeroShotPeak("command")}

BayesIntents == {HybridIntents[i] : i \in 1..Len(HybridIntents)}

BayesConfidences == {5, 700}

\* how many tests of the Fast parser succeed on a message at most
MaxFastTests == 3

RECURSIVE UpTo(_, _)
\* the subsets of S of at most n elements
UpTo(S, n) ==
  IF n = 0 THEN {{}}
  ELSE LET smaller == UpTo(S, n - 1) IN smaller \cup {g \cup {a} : g \in smaller, a \in S}

Messages(p) ==
  IF p = "distilbert"
  THEN {[marker |-> m, feats |-> f] : m \in BOOLEAN, f \in FeatureSets}
  ELSE IF p = "original"
  THEN {[marker |-> FALSE, feats |-> f] :
          f \in {g \in SUBSET OriginalFeatures :
                   Cardinality(g) <= MaxTriggers /\ ~({"wh4", "action6"} \subseteq g)}}
  ELSE IF p = "hybrid"
  THEN {[marker |-> FALSE, feats |-> f] :
          f \in {g \in SUBSET HybridFeatures :
                   Cardinality(g) <= MaxTriggers /\ ConsistentHybridFeatures(g)}}
  ELSE {[marker |-> FALSE, feats |-> f] :
          f \in {g \in UpTo(FastFeatures, MaxFastTests) : ConsistentFastFeatures(g)}}

Options(p) ==
  IF p = "distilbert"
  THEN [includeEntities : BOOLEAN, excludeScreenIntelligence : BOOLEAN]
  ELSE {NoOptions}

Init ==
  /\ ServerIdle
  /\ Constructed
  /\ NoRequest
  /\ pc = "idle"
  /\ scores = << >>
  /\ intent = ""
  /\ confidence = Undefined

outputVars == << scores, entities, intent, confidence, resultParser >>

\* parseIntent(message, options) is called
ParseIntent ==
  /\ pc = "idle"
  /\ \E p \in ParserNames :
       /\ parser' = p
       /\ message' \in Messages(p)
       /\ options' \in Options(p)
  /\ conversationHistory' = << >>
  /\ pc' = "getParser"
  /\ UNCHANGED << instanceVars, localVars, messageEmbedding, zeroShotScores, rawScores, outputVars,
                  error, embedThrew, calls >>
  /\ UNCHANGED << factoryVars, serverVars >>

\* factory.getParser(parserName) creates and initializes the instance
GetParser ==
  /\ pc = "getParser"
  /\ \E w \in Worlds, ready \in BOOLEAN :
       /\ seedEmbeddings' =
            [seedEmbeddings EXCEPT ![parser] =
               IF parser = "distilbert" THEN SeedTable(w, SeedIntents, "distilbert")
               ELSE IF parser = "original"
                    THEN SeedTable(w, OriginalIntents, "original")
                    ELSE << >>]
       /\ isSemanticReady' = (parser = "hybrid" /\ ready)
       /\ (parser = "hybrid" \/ ready)
       /\ (parser \in {"distilbert", "original"} \/ w = "spread")
  /\ initialized' = [initialized EXCEPT ![parser] = TRUE]
  /\ pc' = "parse"
  /\ UNCHANGED << inputVars, localVars, messageEmbedding, zeroShotScores, rawScores, outputVars,
                  error, embedThrew, calls >>
  /\ UNCHANGED << factoryVars, serverVars >>

\* the error leaves parse and parseIntent wraps it
Fail ==
  /\ pc' = "failed"
  /\ error' = "Intent parsing failed"
  /\ UNCHANGED outputVars

(***************************************************************************)
(* DistilBertIntentParser.parse                                            *)
(***************************************************************************)
KeepMarker(msg) == msg

\* message.replace(/\[HIGHLIGHTED_TEXT\]\s*/g, '')
RemoveMarker(msg) == [msg EXCEPT !.marker = FALSE]

\* content.substring(0, 100) of a content held as its first 100 characters and the rest
Substring100(content) == content.head

\* conversationHistory.slice().reverse().find(msg => msg.role === 'assistant')
LastAssistantIdx(hist) ==
  LET idx == {i \in 1..Len(hist) : hist[i].role = "assistant"}
  IN IF idx = {} THEN 0 ELSE CHOOSE i \in idx : \A j \in idx : j <= i

\* the [Context: ...] prefix of messageToClassify, << >> when there is none
ContextFor(msg, hist) ==
  IF Len(hist) > 0 /\ "shortAnswer" \in msg.feats /\ LastAssistantIdx(hist) # 0
  THEN << Substring100(hist[LastAssistantIdx(hist)].content) >>
  ELSE << >>

MessageToClassify(msg, hist) == [context |-> ContextFor(msg, hist), body |-> msg]

\* parse up to the call of generateEmbedding(messageToClassify)
DistilParse ==
  /\ pc = "parse"
  /\ parser = "distilbert"
  /\ localMessage' = RemoveMarker(message)
  /\ messageToClassify' = MessageToClassify(RemoveMarker(message), conversationHistory)
  /\ pc' = "embedding"
  /\ UNCHANGED << instanceVars, inputVars, entitiesFailed, messageEmbedding, zeroShotScores,
                  rawScores, outputVars, error, embedThrew, calls >>
  /\ UNCHANGED << factoryVars, serverVars >>

\* step 2.5: delete scores.screen_intelligence when it is excluded and truthy
Exclude(sc, msg, opts) ==
  IF (msg.marker \/ opts.excludeScreenIntelligence)
     /\ Truthy(Get(sc, "screen_intelligence"))
  THEN Delete(sc, "screen_intelligence")
  ELSE sc

ResolveThenBoost(sc, ents, msg, cs) ==
  LET top == GetTopIntent(sc)
      boosted == ApplyEntityBoosting(sc, ents, msg)
  IN [scores |-> boosted, intent |-> top, confidence |-> Get(boosted, top),
      calls |-> cs \o <<"resolver", "booster">>]

\* steps 4 and 5: the booster, then the resolver on the boosted map
BoostThenResolve(sc, ents, msg, cs) ==
  LET boosted == ApplyEntityBoosting(sc, ents, msg)
      top == GetTopIntent(boosted)
  IN [scores |-> boosted, intent |-> top, confidence |-> Get(boosted, top),
      calls |-> cs \o <<"booster", "resolver">>]

DistilFinish(sc, ents, cs) ==
  LET r == BoostThenResolve(sc, ents, localMessage, cs)
  IN /\ scores' = r.scores
     /\ intent' = r.intent
     /\ confidence' = r.confidence
     /\ calls' = r.calls
     /\ entities' = ents
     /\ resultParser' = "distilbert"
     /\ pc' = "done"
     /\ error' = error

DistilEmbedReturns ==
  /\ pc = "embedding"
  /\ parser = "distilbert"
  /\ \E v \in EmbeddingOutputs :
       /\ messageEmbedding' = v
       /\ IF ScorerThrows(seedEmbeddings[parser], v)
          THEN Fail /\ UNCHANGED << rawScores, calls >>
          ELSE LET raw == CalculateIntentScores(seedEmbeddings[parser], v)
                   kept == Exclude(raw, message, options)
               IN /\ rawScores' = raw
                  /\ IF options.includeEntities
                     THEN /\ scores' = kept
                          /\ calls' = <<"scorer">>
                          /\ pc' = "entities"
                          /\ UNCHANGED << entities, intent, confidence, resultParser, error >>
                     ELSE DistilFinish(kept, << >>, <<"scorer">>)
  /\ UNCHANGED << instanceVars, localVars, inputVars, zeroShotScores, embedThrew >>
  /\ UNCHANGED << factoryVars, serverVars >>

DistilEmbedThrows ==
  /\ pc = "embedding"
  /\ parser = "distilbert"
  /\ embedThrew' = TRUE
  /\ Fail
  /\ UNCHANGED << instanceVars, localVars, inputVars, messageEmbedding, zeroShotScores, rawScores,
                  calls >>
  /\ UNCHANGED << factoryVars, serverVars >>

ExtractEntitiesUncaught(found, failed) == found

\* extractEntities, which has collected the entities found when it fails: the catch
\* around its whole body answers []
ExtractEntities(found, failed) == IF failed THEN << >> ELSE found

\* extractEntities(message) answers and parse runs to its return
DistilEntitiesReturn ==
  /\ pc = "entities"
  /\ parser = "distilbert"
  /\ \E found \in EntityLists, failed \in BOOLEAN :
       /\ entitiesFailed' = failed
       /\ DistilFinish(scores, ExtractEntities(found, failed), calls)
  /\ UNCHANGED << instanceVars, inputVars, localMessage, messageToClassify, messageEmbedding,
                  zeroShotScores, rawScores, embedThrew >>
  /\ UNCHANGED << factoryVars, serverVars >>

(***************************************************************************)
(* NaturalLanguageIntentParser.parse                                       *)
(***************************************************************************)
OriginalParse ==
  /\ pc = "parse"
  /\ parser = "original"
  /\ pc' = "zeroShot"
  /\ UNCHANGED << instanceVars, localVars, inputVars, messageEmbedding, zeroShotScores, rawScores,
                  outputVars, error, embedThrew, calls >>
  /\ UNCHANGED << factoryVars, serverVars >>

ZeroShotReturns ==
  /\ pc = "zeroShot"
  /\ zeroShotScores' \in ZeroShotOutputs
  /\ pc' = "embedding"
  /\ UNCHANGED << instanceVars, localVars, inputVars, messageEmbedding, rawScores, outputVars, error,
                  embedThrew, calls >>
  /\ UNCHANGED << factoryVars, serverVars >>

ZeroShotThrows ==
  /\ pc = "zeroShot"
  /\ Fail
  /\ UNCHANGED << instanceVars, localVars, inputVars, messageEmbedding, zeroShotScores, rawScores,
                  embedThrew, calls >>
  /\ UNCHANGED << factoryVars, serverVars >>

OriginalEmbedReturns ==
  /\ pc = "embedding"
  /\ parser = "original"
  /\ \E v \in EmbeddingOutputs :
       /\ messageEmbedding' = v
       /\ IF ScorerThrows(seedEmbeddings[parser], v)
          THEN Fail /\ UNCHANGED << rawScores, calls >>
          ELSE /\ rawScores' = CalculateEmbeddingScores(seedEmbeddings[parser], v)
               /\ calls' = <<"scorer">>
               /\ pc' = "entities"
               /\ UNCHANGED << outputVars, error >>
  /\ UNCHANGED << instanceVars, localVars, inputVars, zeroShotScores, embedThrew >>
  /\ UNCHANGED << factoryVars, serverVars >>

OriginalEmbedThrows ==
  /\ pc = "embedding"
  /\ parser = "original"
  /\ embedThrew' = TRUE
  /\ Fail
  /\ UNCHANGED << instanceVars, localVars, inputVars, messageEmbedding, zeroShotScores, rawScores,
                  calls >>
  /\ UNCHANGED << factoryVars, serverVars >>

OriginalEntitiesReturn ==
  /\ pc = "entities"
  /\ parser = "original"
  /\ \E found \in EntityLists, failed \in BOOLEAN :
       LET ents == ExtractEntities(found, failed)
           combinedScores == CombineScores(zeroShotScores, rawScores, ents, message.feats)
           top == OriginalGetTopIntent(combinedScores)
       IN /\ scores' = combinedScores
          /\ intent' = top
          /\ confidence' = Get(combinedScores, top)
          /\ entities' = ents
          /\ entitiesFailed' = failed
  /\ calls' = calls \o <<"booster", "resolver">>
  /\ resultParser' = "original"
  /\ pc' = "done"
  /\ UNCHANGED << instanceVars, inputVars, localMessage, messageToClassify, messageEmbedding,
                  zeroShotScores, rawScores, error, embedThrew >>
  /\ UNCHANGED << factoryVars, serverVars >>

(***************************************************************************)
(* HybridIntentParser.parse                                                *)
(***************************************************************************)
\* return this.parseWithFallback(message, startTime)
Fallback ==
  /\ \E b \in BayesIntents, c \in BayesConfidences :
       LET r == ParseWithFallback(b, c, message.feats)
       IN /\ intent' = r.intent
          /\ confidence' = r.confidence
          /\ scores' = r.scores
  /\ entities' = << >>
  /\ resultParser' = "hybrid-fallback"
  /\ pc' = "done"
  /\ error' = error

HybridParse ==
  /\ pc = "parse"
  /\ parser = "hybrid"
  /\ IF isSemanticReady
     THEN pc' = "embedding" /\ UNCHANGED << outputVars, error >>
     ELSE Fallback
  /\ UNCHANGED << instanceVars, localVars, inputVars, messageEmbedding, zeroShotScores, rawScores,
                  embedThrew, calls >>
  /\ UNCHANGED << factoryVars, serverVars >>

HybridEmbedReturns ==
  /\ pc = "embedding"
  /\ parser = "hybrid"
  /\ messageEmbedding' \in EmbeddingOutputs
  /\ pc' = "seedEmbedding"
  /\ UNCHANGED << instanceVars, localVars, inputVars, zeroShotScores, rawScores, outputVars, error,
                  embedThrew, calls >>
  /\ UNCHANGED << factoryVars, serverVars >>

\* useModel.embed([message]) throws; the catch of parse answers with the fallback
HybridEmbedThrows ==
  /\ pc = "embedding"
  /\ parser = "hybrid"
  /\ embedThrew' = TRUE
  /\ Fallback
  /\ UNCHANGED << instanceVars, localVars, inputVars, messageEmbedding, zeroShotScores, rawScores,
                  calls >>
  /\ UNCHANGED << factoryVars, serverVars >>

\* classifyWithEmbedding has embedded the seed texts of every intent
HybridSeedsReturn ==
  /\ pc = "seedEmbedding"
  /\ \E w \in Worlds :
       LET sc == ClassifyWithEmbedding(SeedTable(w, HybridIntents, "hybrid"),
                                       messageEmbedding)
           top == HybridGetTopIntent(sc)
       IN /\ rawScores' = sc
          /\ scores' = sc
          /\ intent' = top
          /\ confidence' = Get(sc, top)
  /\ entities' = << >>
  /\ calls' = <<"scorer", "resolver">>
  /\ resultParser' = "hybrid-semantic"
  /\ pc' = "done"
  /\ UNCHANGED << instanceVars, localVars, inputVars, messageEmbedding, zeroShotScores, error,
                  embedThrew >>
  /\ UNCHANGED << factoryVars, serverVars >>

HybridSeedsThrow ==
  /\ pc = "seedEmbedding"
  /\ Fallback
  /\ UNCHANGED << instanceVars, localVars, inputVars, messageEmbedding, zeroShotScores, rawScores,
                  embedThrew, calls >>
  /\ UNCHANGED << factoryVars, serverVars >>

(***************************************************************************)
(* FastIntentParser.parse                                                  *)
(***************************************************************************)
FastParse ==
  /\ pc = "parse"
  /\ parser = "fast"
  /\ LET sc == FastScores(message.feats)
         top == FastGetTopIntent(sc)
     IN /\ scores' = sc
        /\ intent' = top
        /\ confidence' = FastConfidence(sc, top)
  /\ entities' = << >>
  /\ calls' = << "scorer", "resolver" >>
  /\ resultParser' = "fast"
  /\ pc' = "done"
  /\ UNCHANGED << instanceVars, localVars, inputVars, messageEmbedding, zeroShotScores,
                  rawScores, error, embedThrew >>
  /\ UNCHANGED << factoryVars, serverVars >>

Next ==
  \/ ParseIntent
  \/ GetParser
  \/ DistilParse
  \/ DistilEmbedReturns
  \/ DistilEmbedThrows
  \/ DistilEntitiesReturn
  \/ OriginalParse
  \/ ZeroShotReturns
  \/ ZeroShotThrows
  \/ OriginalEmbedReturns
  \/ OriginalEmbedThrows
  \/ OriginalEntitiesReturn
  \/ HybridParse
  \/ HybridEmbedReturns
  \/ HybridEmbedThrows
  \/ HybridSeedsReturn
  \/ HybridSeedsThrow
  \/ FastParse

Spec == Init /\ [][Next]_vars

(***************************************************************************)
(* Claims about a request                                                  *)
(***************************************************************************)
DistilDone == pc = "done" /\ parser = "distilbert"

RawWithinCosineRange ==
  \A i \in 1..Len(rawScores) :
     IsNum(rawScores[i].v) /\ 0 - Scale <= rawScores[i].v /\ rawScores[i].v <= Scale

WithinUnit(x) == IsNum(x) /\ 0 <= x /\ x <= Scale

\* C4: whatever the raw similarities in [-1,1], the text and the entities, every
\* value of the scores map returned by DistilBERT parse lies within [0,1], and so
\* does the returned confidence.
C4_ScoresWithinUnit ==
  (DistilDone /\ RawWithinCosineRange)
     => /\ \A i \in 1..Len(scores) : WithinUnit(scores[i].v)
        /\ WithinUnit(confidence)

\* a result for a message that starts with an action verb: every raw similarity is
\* within [0,1], and the returned map carries a key 'command' that is not a number
C4_Witness ==
  /\ DistilDone
  /\ \A i \in 1..Len(rawScores) : WithinUnit(rawScores[i].v)
  /\ "actionVerb" \in message.feats
  /\ Has(scores, "command")
  /\ Get(scores, "command") = NaN

\* C5: when every raw similarity is below 0.05, DistilBERT parse resolves to
\* 'question', whichever rules the text and the entities trigger.
C5_LowRawScoresResolveToQuestion ==
  (DistilDone /\ \A i \in 1..Len(rawScores) : IsNum(rawScores[i].v) /\ rawScores[i].v < 50)
     => intent = "question"

\* every raw similarity is below 0.05, the weather rule and the selected-text rule
\* fire, and the request resolves to web_search
C5_Witness ==
  /\ DistilDone
  /\ \A i \in 1..Len(rawScores) : IsNum(rawScores[i].v) /\ rawScores[i].v < 50
  /\ message.feats = {"weather", "highlighted"}
  /\ intent = "web_search"
  /\ confidence >= 150

Scored == parser \in {"distilbert", "original"} /\ pc \in {"entities", "done"}

CosinesOf(i) ==
  {CosineSimilarity(messageEmbedding, seedEmbeddings[parser][i].vecs[j]) :
     j \in 1..Len(seedEmbeddings[parser][i].vecs)}

\* C6: in the DistilBERT and the Original parser the raw score of an intent is the
\* greatest of the cosine similarities between the input vector and the cached seed
\* vectors of that intent, and there is exactly one score per intent with seeds.
C6_RawScoreIsMaxOverSeeds ==
  (Scored /\ WellFormed(messageEmbedding))
     => /\ Len(rawScores) = Len(seedEmbeddings[parser])
        /\ \A i \in 1..Len(rawScores) :
             /\ rawScores[i].k = seedEmbeddings[parser][i].k
             /\ rawScores[i].v \in CosinesOf(i)
             /\ \A c \in CosinesOf(i) : c <= rawScores[i].v
        /\ \A i, j \in 1..Len(rawScores) : rawScores[i].k = rawScores[j].k => i = j

\* an intent whose first seed is not its most similar seed
C6_Witness ==
  /\ Scored
  /\ WellFormed(messageEmbedding)
  /\ \E i \in 1..Len(rawScores) :
       /\ Len(seedEmbeddings[parser][i].vecs) >= 2
       /\ CosineSimilarity(messageEmbedding, seedEmbeddings[parser][i].vecs[1])
            < rawScores[i].v
       /\ rawScores[i].v > 0

\* C7: within a DistilBERT parse the scorer finishes before the booster starts, the
\* booster before the resolver, and each is invoked exactly once: the booster
\* works on the scorer's map and the resolver on the booster's.
C7_StrictPipeline ==
  parser = "distilbert"
     => /\ pc \in {"idle", "getParser", "parse", "embedding"} => calls = << >>
        /\ pc = "entities" => calls = << "scorer" >>
        /\ pc = "failed" => calls = << >>
        /\ pc = "done" =>
             /\ calls = << "scorer", "booster", "resolver" >>
             /\ scores = ApplyEntityBoosting(Exclude(rawScores, message, options),
                                             entities, message)
             /\ intent = GetTopIntent(scores)

\* a finished parse in which the booster changed what the resolver answers
C7_Witness ==
  /\ DistilDone
  /\ WellFormed(messageEmbedding)
  /\ calls = << "scorer", "booster", "resolver" >>
  /\ intent # GetTopIntent(Exclude(rawScores, message, options))
  /\ entities # << >>

\* C9: in every parser that embeds its input, an embedding call that throws makes
\* parseIntent fail with 'Intent parsing failed'; no result is returned.
C9_EmbeddingFailurePropagates ==
  embedThrew => (pc = "failed" /\ error = "Intent parsing failed" /\ resultParser = "")

\* the Hybrid parser answers a request whose embedding call threw
C9_Witness ==
  /\ embedThrew
  /\ parser = "hybrid"
  /\ isSemanticReady
  /\ pc = "done"
  /\ resultParser = "hybrid-fallback"
  /\ error = ""

NonNumeric(v) == \E i \in 1..Len(v) : ~IsNum(v[i])

\* C10: when the embedder answers with a vector that has a non-numeric component,
\* DistilBERT parse fails instead of returning a result computed from it.
C10_MalformedVectorFails ==
  (parser = "distilbert" /\ NonNumeric(messageEmbedding)) => pc = "failed"

\* a result whose confidence was computed from a vector with a non-numeric component
C10_Witness ==
  /\ DistilDone
  /\ NonNumeric(messageEmbedding)
  /\ \A i \in 1..Len(rawScores) : rawScores[i].v = NaN
  /\ confidence = NaN
  /\ error = ""

\* C11: a failure inside extractEntities never aborts a parse: the parse completes
\* with an empty entity list, and its intent and confidence are those of the scores
\* boosted with an empty entity list.
C11_EntityFailureIsNotFatal ==
  entitiesFailed
     => /\ pc = "done"
        /\ error = ""
        /\ entities = << >>
        /\ parser = "distilbert" =>
             /\ scores = ApplyEntityBoosting(Exclude(rawScores, message, options), << >>,
                                             localMessage)
             /\ intent = GetTopIntent(scores)
             /\ confidence = Get(scores, intent)
        /\ parser = "original" =>
             /\ scores = CombineScores(zeroShotScores, rawScores, << >>, message.feats)
             /\ intent = OriginalGetTopIntent(scores)
             /\ confidence = Get(scores, intent)

\* a DistilBERT parse that finished although extractEntities failed, for a message on
\* which a person entity would have triggered the storage rule
C11_Witness ==
  /\ entitiesFailed
  /\ DistilDone
  /\ "storageVerb" \in message.feats
  /\ ~("questionMark" \in message.feats)
  /\ ~("questionWord" \in message.feats)
  /\ Get(rawScores, "memory_store") > 0
  /\ Get(scores, "memory_store") = Get(rawScores, "memory_store")

FastDone == pc = "done" /\ parser = "fast"

\* the floor check of DistilBertIntentParser.getTopIntent fired on the final scores
DistilFloorFired == DistilDone /\ BelowFloor(Sort(scores)[1].v)

\* the floor check of FastIntentParser.getTopIntent fired
FastFloorFired == FastDone /\ Lt(TopScoreFrom(scores, 1, 0), FastFloor)

\* C20: whenever the floor check of a resolver fires (top score below 0.15 in the
\* DistilBERT parser, below 0.3 in the Fast parser) the confidence of the result is
\* below that floor.
C20_FloorMeansLowConfidence ==
  /\ DistilFloorFired => (intent = DefaultIntent /\ Lt(confidence, ConfidenceFloor))
  /\ FastFloorFired => (intent = "question" /\ Lt(confidence, FastFloor))

\* a message in which no test of the Fast parser succeeds: every score is 0, the
\* floor fires, and the result is 'question' with confidence 0.5
C20_Witness ==
  /\ FastFloorFired
  /\ message.feats = {}
  /\ \A i \in 1..Len(scores) : scores[i].v = 0
  /\ intent = "question"
  /\ confidence = FastDefaultConfidence

\* in the DistilBERT parser the confidence after a fired floor is below the floor
C20_DistilFloorMeansLowConfidence ==
  DistilFloorFired => (intent = DefaultIntent /\ Lt(confidence, ConfidenceFloor))

(***************************************************************************)
(* DistilBERT requests that carry a conversation history                   *)
(***************************************************************************)
\* "shortAnswer" is the test isShortResponse: the trimmed message is shorter than 15
\* characters and is one of yes, no, ok, ...; such a message has at most five words
\* and matches none of the booster's patterns
ParseFeatureSets ==
  { {}, {"fewWords"}, {"fewWords", "shortAnswer"}, {"fewWords", "questionMark"},
    {"storageVerb"} }

Content(head, rest) == [head |-> head, rest |-> rest]

Turn(role, content) == [role |-> role, content |-> content]

Histories ==
  { << >>,
    << Turn("user", Content("u", "")) >>,
    << Turn("assistant", Content("a", "")), Turn("user", Content("u", "")) >>,
    << Turn("assistant", Content("a", "")), Turn("assistant", Content("b", "tail")) >> }

\* parseIntent(message, { conversationHistory }) is called
ParseIntentWithHistory ==
  /\ pc = "idle"
  /\ parser' = "distilbert"
  /\ message' \in {[marker |-> m, feats |-> f] : m \in BOOLEAN, f \in ParseFeatureSets}
  /\ options' \in Options("distilbert")
  /\ conversationHistory' \in Histories
  /\ pc' = "getParser"
  /\ UNCHANGED << instanceVars, localVars, messageEmbedding, zeroShotScores, rawScores,
                  outputVars, error, embedThrew, calls >>
  /\ UNCHANGED << factoryVars, serverVars >>

NextParse ==
  \/ ParseIntentWithHistory
  \/ GetParser
  \/ DistilParse
  \/ DistilEmbedReturns
  \/ DistilEmbedThrows
  \/ DistilEntitiesReturn

SpecParse == Init /\ [][NextParse]_vars

Parsing == parser = "distilbert" /\ pc \notin {"idle", "getParser", "parse"}

fallbackOrder == << "distilbert", "hybrid", "fast", "original" >>

Enabled(cfg, p) ==
  CASE p = "distilbert" -> cfg.useDistilBert
    [] p = "hybrid" -> cfg.useHybrid
    [] p = "fast" -> cfg.useFast
    [] p = "original" -> cfg.useOriginal

\* the parsers whose initialize() rethrows what its model loading throws; the
\* Hybrid parser catches it and the Fast parser loads nothing
CanFail == {"distilbert", "original"}

FactoryState ==
  [instances |-> instances, initializationStatus |-> initializationStatus,
   initialized |-> initialized, initRuns |-> initRuns]

\* instance.initialize()
Initialize(st, p, broken) ==
  IF st.initialized[p] THEN [threw |-> FALSE, st |-> st]
  ELSE IF p \in broken
       THEN [threw |-> TRUE, st |-> [st EXCEPT !.initRuns[p] = @ + 1]]
       ELSE [threw |-> FALSE,
             st |-> [st EXCEPT !.initRuns[p] = @ + 1, !.initialized[p] = TRUE]]

\* getDistilBertParser, getFastParser, getHybridParser, getOriginalParser
Getter(st, p, cfg, broken) ==
  IF ~Enabled(cfg, p) THEN [threw |-> TRUE, returned |-> "", st |-> st]
  ELSE IF ~st.instances[p]
       THEN LET made == [st EXCEPT !.initializationStatus[p] = "initializing",
                                   !.instances[p] = TRUE]
                r == Initialize(made, p, broken)
            IN IF r.threw THEN [threw |-> TRUE, returned |-> "", st |-> r.st]
               ELSE [threw |-> FALSE, returned |-> p,
                     st |-> [r.st EXCEPT !.initializationStatus[p] = "ready"]]
       ELSE [threw |-> FALSE, returned |-> p, st |-> st]

\* getFallbackParser: the Fast singleton, else a new FastIntentParser of its own
GetFallbackParser(st, cfg, broken) ==
  LET r == Getter(st, "fast", cfg, broken)
  IN IF r.threw THEN [threw |-> FALSE, returned |-> "emergency", st |-> r.st] ELSE r

\* getParser(name) for one of the four names of the switch
GetNamedParser(st, name, cfg, broken) ==
  LET r == Getter(st, name, cfg, broken)
  IN IF r.threw THEN GetFallbackParser(r.st, cfg, broken) ELSE r

\* getDefaultParser: getParser(parserName) never throws, so the loop over
\* fallbackOrder returns in its first round
GetDefaultParser(st, cfg, broken) == GetNamedParser(st, fallbackOrder[1], cfg, broken)

\* getParser(name)
GetParserFor(st, name, cfg, broken) ==
  IF name \in ParserNames THEN GetNamedParser(st, name, cfg, broken)
  ELSE GetDefaultParser(st, cfg, broken)

\* what initialize() leaves in this.seedEmbeddings
BuiltSeeds(p) ==
  IF p = "distilbert" THEN SeedTable("spread", SeedIntents, p)
  ELSE IF p = "original" THEN SeedTable("spread", OriginalIntents, p)
  ELSE << >>

MaxInitRuns == 3

\* the factory and the instances take the state st
Becomes(st) ==
  /\ \A p \in ParserNames : st.initRuns[p] <= MaxInitRuns
  /\ instances' = st.instances
  /\ initializationStatus' = st.initializationStatus
  /\ initialized' = st.initialized
  /\ initRuns' = st.initRuns
  /\ seedEmbeddings' = [p \in ParserNames |-> IF st.initialized[p] THEN BuiltSeeds(p) ELSE << >>]
  /\ isSemanticReady' = st.initialized["hybrid"]

parseVars ==
  << pc, inputVars, localVars, messageEmbedding, zeroShotScores, rawScores, outputVars, error,
     embedThrew, calls >>

requestVars == << parseVars, serverVars >>

(***************************************************************************)
(* The factory in a server process: startServer awaits warmup() when       *)
(* MODEL_WARMUP_ON_START is 'true', then listens; the requests are served  *)
(* one after the other.                                                    *)
(***************************************************************************)
InitFactory ==
  /\ ServerIdle
  /\ InstancesConstructed
  /\ NoRequest
  /\ pc = "idle"
  /\ scores = << >>
  /\ intent = ""
  /\ confidence = Undefined
  /\ \E cfg \in [useDistilBert : BOOLEAN, useHybrid : BOOLEAN, useFast : BOOLEAN,
                  useOriginal : BOOLEAN],
        broken \in SUBSET CanFail : FactoryConstructed(cfg, broken)

\* startServer with MODEL_WARMUP_ON_START unset
Listen ==
  /\ phase = "start"
  /\ phase' = "listening"
  /\ UNCHANGED << instanceVars, requestVars, config, instances, initializationStatus, failing,
                  initRuns, warmup, tasks >>

WarmTargetsDefaultOnly(cfg) == {p \in {"distilbert"} : Enabled(cfg, p)}

\* the getters warmup() calls
WarmTargets(cfg) == {p \in ParserNames : Enabled(cfg, p)}

\* warmup() up to its await: every getter it calls has made its instance and
\* waits for initialize()
Warmup ==
  /\ phase = "start"
  /\ phase' = "warming"
  /\ LET targets == WarmTargets(config)
     IN /\ warmup' = [p \in ParserNames |-> IF p \in targets THEN "pending" ELSE "skipped"]
        /\ instances' = [p \in ParserNames |-> p \in targets]
        /\ initializationStatus' =
             [p \in ParserNames |-> IF p \in targets THEN "initializing" ELSE "not_started"]
        /\ initRuns' = [p \in ParserNames |-> IF p \in targets THEN 1 ELSE 0]
  /\ UNCHANGED << instanceVars, requestVars, config, failing, tasks >>

\* promise.catch(e => console.warn(...))
Catch(outcome) == "fulfilled"

\* initialize() of a parser that warmup() waits for ends, and its getter settles
WarmupGetterSettles ==
  /\ phase = "warming"
  /\ \E p \in ParserNames :
       /\ warmup[p] = "pending"
       /\ IF p \in failing
          THEN /\ warmup' = [warmup EXCEPT ![p] = Catch("rejected")]
               /\ UNCHANGED << instanceVars, initializationStatus >>
          ELSE /\ warmup' = [warmup EXCEPT ![p] = Catch("fulfilled")]
               /\ initialized' = [initialized EXCEPT ![p] = TRUE]
               /\ seedEmbeddings' = [seedEmbeddings EXCEPT ![p] = BuiltSeeds(p)]
               /\ isSemanticReady' = (isSemanticReady \/ p = "hybrid")
               /\ initializationStatus' = [initializationStatus EXCEPT ![p] = "ready"]
  /\ UNCHANGED << requestVars, config, instances, failing, initRuns, phase, tasks >>

\* Promise.allSettled(promises)
AllSettled(promises) == "fulfilled"

\* await Promise.allSettled(promises) ends; startServer listens, or exits if the
\* await threw
WarmupResolves ==
  /\ phase = "warming"
  /\ \A p \in ParserNames : warmup[p] # "pending"
  /\ phase' = IF AllSettled(warmup) = "fulfilled" THEN "listening" ELSE "exit"
  /\ UNCHANGED << instanceVars, requestVars, config, instances, initializationStatus, failing,
                  initRuns, warmup, tasks >>

\* parseIntent: await this.factory.getParser(parserName)
FactoryGetParser ==
  /\ phase = "listening"
  /\ tasks[1].pc \in {"idle", "done", "failed"}
  /\ \E name \in ParserNames \cup {"unknown"} :
       LET r == GetParserFor(FactoryState, name, config, failing)
       IN /\ Becomes(r.st)
          /\ tasks' = [tasks EXCEPT ![1] = [IdleTask EXCEPT !.pc = "returned", !.name = name,
                                                           !.returned = r.returned]]
  /\ UNCHANGED << requestVars, config, failing, phase, warmup >>

\* parseIntent: await parser.parse(message, options), whose first step is
\* if (!this.initialized) await this.initialize()
FactoryParse ==
  /\ tasks[1].pc = "returned"
  /\ IF tasks[1].returned = "emergency"
     THEN /\ tasks' = [tasks EXCEPT ![1].pc = "done"]
          /\ UNCHANGED << instanceVars, instances, initializationStatus, initRuns >>
     ELSE LET r == Initialize(FactoryState, tasks[1].returned, failing)
          IN /\ Becomes(r.st)
             /\ tasks' = [tasks EXCEPT ![1].pc = IF r.threw THEN "failed" ELSE "done"]
  /\ UNCHANGED << requestVars, config, failing, phase, warmup >>

NextFactory ==
  \/ Listen
  \/ Warmup
  \/ WarmupGetterSettles
  \/ WarmupResolves
  \/ FactoryGetParser
  \/ FactoryParse

SpecFactory == InitFactory /\ [][NextFactory]_vars

Returned == tasks[1].pc = "returned"

RECURSIVE NextFrom(_, _, _)
\* the first parser of fallbackOrder from position i on that is enabled and whose
\* initialize() does not throw, "" if there is none
NextFrom(i, cfg, broken) ==
  IF i > Len(fallbackOrder) THEN ""
  ELSE IF Enabled(cfg, fallbackOrder[i]) /\ ~(fallbackOrder[i] \in broken)
       THEN fallbackOrder[i]
       ELSE NextFrom(i + 1, cfg, broken)

PositionOf(name) == CHOOSE i \in 1..Len(fallbackOrder) : fallbackOrder[i] = name

\* getParser(name) did not answer with the parser asked for
RequestedFailed == Returned /\ tasks[1].name \in ParserNames /\ tasks[1].returned # tasks[1].name

\* C15: when the parser asked for is disabled or fails to initialize, getParser
\* returns the next parser of the order distilbert, hybrid, fast, original that is
\* enabled and initializes.
C15_FallsToNextInOrder ==
  (RequestedFailed /\ NextFrom(PositionOf(tasks[1].name) + 1, config, failing) # "")
     => tasks[1].returned = NextFrom(PositionOf(tasks[1].name) + 1, config, failing)

\* DistilBERT is disabled, Hybrid is enabled and has been warmed up, Fast is
\* disabled: getParser('distilbert') answers with an emergency Fast parser
C15_Witness ==
  /\ RequestedFailed
  /\ tasks[1].name = "distilbert"
  /\ ~config.useDistilBert
  /\ config.useHybrid
  /\ ~config.useFast
  /\ initializationStatus["hybrid"] = "ready"
  /\ tasks[1].returned = "emergency"

\* parse of the parser r can run: r is initialized, or its initialize() succeeds
Usable(r) == r = "emergency" \/ initialized[r] \/ ~(r \in failing)

\* C16: getParser resolves, for every name and every combination of failing
\* initializations, with a usable parser.
C16_ResolvesWithUsableParser ==
  Returned => (tasks[1].returned \in ParserNames \cup {"emergency"} /\ Usable(tasks[1].returned))

\* the DistilBERT model cannot be loaded; a second getParser('distilbert') has
\* returned the singleton left behind by the first, and its parse has failed
C16_Witness ==
  /\ tasks[1].pc = "failed"
  /\ tasks[1].returned = "distilbert"
  /\ "distilbert" \in failing
  /\ ~initialized["distilbert"]
  /\ initializationStatus["distilbert"] = "initializing"
  /\ initRuns["distilbert"] >= 2

\* getParser always resolves with a parser, and when the parser asked for and the
\* Fast singleton are unavailable that parser is an emergency Fast parser
C16_NeverRejects ==
  Returned =>
    /\ tasks[1].returned \in ParserNames \cup {"emergency"}
    /\ (tasks[1].returned = "emergency" => ~config.useFast)

WarmupCalled == \A p \in ParserNames : warmup[p] # "none"

\* C18: warmup() always resolves, and once it has, every enabled parser whose
\* initialization did not fail has its singleton instance and status 'ready'.
C18_WarmupReadiesEnabledParsers ==
  /\ phase # "exit"
  /\ (WarmupCalled /\ phase = "listening") =>
       \A p \in ParserNames :
          (Enabled(config, p) /\ ~(p \in failing)) =>
             (instances[p] /\ initialized[p] /\ initializationStatus[p] = "ready")

\* warmup() has resolved with DistilBERT failing and Hybrid and Fast ready
C18_Witness ==
  /\ WarmupCalled
  /\ phase = "listening"
  /\ tasks[1].pc = "idle"
  /\ config.useDistilBert /\ config.useHybrid /\ config.useFast
  /\ "distilbert" \in failing
  /\ initializationStatus =
       [p \in ParserNames |->
          IF p = "distilbert" THEN "initializing"
          ELSE IF Enabled(config, p) /\ ~(p \in failing) THEN "ready" ELSE
          IF Enabled(config, p) THEN "initializing" ELSE "not_started"]
  /\ initialized["hybrid"] /\ initialized["fast"]

(***************************************************************************)
(* Two requests for the DistilBERT parser reach a cold process (default    *)
(* configuration, no warmup) one after the other and run concurrently:     *)
(* each await of getDistilBertParser, initialize, computeSeedEmbeddings    *)
(* and parse is a point where the other request may run.  Both carry the   *)
(* same text, and the embedder answers every text with the same vector     *)
(* every time.  The seed table is followed for three of its nine intents.  *)
(***************************************************************************)
RaceText == [marker |-> FALSE, feats |-> {}]

RaceEmbedding == <<12, 35, 0>>

\* the intents of seedExamples the race is followed on: three of the nine
RaceIntents ==
  SelectSeq(SeedIntents, LAMBDA name : name \in {"memory_store", "question", "greeting"})

InitRace ==
  /\ ServerIdle
  /\ InstancesConstructed
  /\ NoRequest
  /\ pc = "idle"
  /\ scores = << >>
  /\ intent = ""
  /\ confidence = Undefined
  /\ FactoryConstructed(DefaultConfig, {})

\* parseIntent calls getParser('distilbert'), which runs getDistilBertParser up
\* to its first await
RaceGetParser(t) ==
  /\ phase = "listening"
  /\ tasks[t].pc = "idle"
  /\ \A u \in TaskIds : u < t => tasks[u].pc # "idle"
  /\ IF ~instances["distilbert"]
     THEN /\ initializationStatus' = [initializationStatus EXCEPT !["distilbert"] = "initializing"]
          /\ instances' = [instances EXCEPT !["distilbert"] = TRUE]
          /\ initRuns' = [initRuns EXCEPT !["distilbert"] = @ + 1]
          /\ tasks' = [tasks EXCEPT ![t] = [IdleTask EXCEPT !.pc = "load", !.name = "distilbert",
                                                           !.inGetter = TRUE]]
     ELSE /\ tasks' = [tasks EXCEPT ![t] = [IdleTask EXCEPT !.pc = "returned",
                                                           !.name = "distilbert",
                                                           !.returned = "distilbert"]]
          /\ UNCHANGED << initializationStatus, instances, initRuns >>
  /\ UNCHANGED << instanceVars, requestVars, config, failing, phase, warmup >>

\* this.seedEmbeddings[name] = vecs
PutSeeds(seeds, name, vecs) ==
  IF Has(seeds, name)
  THEN [seeds EXCEPT ![IndexOf(seeds, name)] = [k |-> name, vecs |-> vecs]]
  ELSE Append(seeds, [k |-> name, vecs |-> vecs])

\* initialize: await pipeline(...) returns; computeSeedEmbeddings assigns a new
\* object, gives the first intent an empty array and awaits its first embedding
RaceModelLoaded(t) ==
  /\ tasks[t].pc = "load"
  /\ seedEmbeddings' = [seedEmbeddings EXCEPT !["distilbert"] = PutSeeds(<< >>, RaceIntents[1], << >>)]
  /\ tasks' = [tasks EXCEPT ![t].pc = "seed", ![t].i = 1, ![t].j = 1]
  /\ UNCHANGED << initialized, isSemanticReady, requestVars, config, instances,
                  initializationStatus, failing, initRuns, phase, warmup >>

\* parse after its initialization check: the message is sent to the embedder
StartParse(t, wasInitialized) ==
  tasks' = [tasks EXCEPT ![t].pc = "embedding", ![t].sawInitialized = wasInitialized]

\* initialize() of task t has thrown
InitializeThrows(t) ==
  IF tasks[t].inGetter
  THEN tasks' = [tasks EXCEPT ![t].pc = "returned",
                              ![t].returned = GetFallbackParser(FactoryState, config, failing).returned]
  ELSE tasks' = [tasks EXCEPT ![t].pc = "failed"]

\* computeSeedEmbeddings: await this.generateEmbedding(example) returns and the
\* loop runs to its next await, or to the end of initialize
RaceSeedEmbedded(t) ==
  /\ tasks[t].pc = "seed"
  /\ LET seeds == seedEmbeddings["distilbert"]
         name == RaceIntents[tasks[t].i]
         pushed == PutSeeds(seeds, name,
                            Append(seeds[IndexOf(seeds, name)].vecs,
                                   SeedVector("spread", name, tasks[t].i, tasks[t].j)))
     IN IF ~Has(seeds, name)
        THEN /\ InitializeThrows(t)
             /\ UNCHANGED << instanceVars, initializationStatus >>
        ELSE IF tasks[t].j < DistilSeedCount(name)
        THEN /\ seedEmbeddings' = [seedEmbeddings EXCEPT !["distilbert"] = pushed]
             /\ tasks' = [tasks EXCEPT ![t].j = @ + 1]
             /\ UNCHANGED << initialized, isSemanticReady, initializationStatus >>
        ELSE IF tasks[t].i < Len(RaceIntents)
        THEN /\ seedEmbeddings' =
                  [seedEmbeddings EXCEPT !["distilbert"] =
                     PutSeeds(pushed, RaceIntents[tasks[t].i + 1], << >>)]
             /\ tasks' = [tasks EXCEPT ![t].i = @ + 1, ![t].j = 1]
             /\ UNCHANGED << initialized, isSemanticReady, initializationStatus >>
        ELSE /\ seedEmbeddings' = [seedEmbeddings EXCEPT !["distilbert"] = pushed]
             /\ initialized' = [initialized EXCEPT !["distilbert"] = TRUE]
             /\ IF tasks[t].inGetter
                THEN /\ initializationStatus' =
                          [initializationStatus EXCEPT !["distilbert"] = "ready"]
                     /\ tasks' = [tasks EXCEPT ![t].pc = "returned",
                                               ![t].returned = "distilbert"]
                ELSE /\ StartParse(t, FALSE)
                     /\ UNCHANGED initializationStatus
             /\ UNCHANGED isSemanticReady
  /\ UNCHANGED << requestVars, config, instances, failing, initRuns, phase, warmup >>

\* parseIntent: getParser has resolved and parser.parse(message, options) runs up
\* to its first await
RaceParse(t) ==
  /\ tasks[t].pc = "returned"
  /\ IF tasks[t].returned = "emergency"
     THEN /\ LET sc == FastScores(RaceText.feats)
             IN tasks' = [tasks EXCEPT ![t].pc = "done",
                                       ![t].intent = FastGetTopIntent(sc),
                                       ![t].confidence =
                                          FastConfidence(sc, FastGetTopIntent(sc))]
          /\ UNCHANGED initRuns
     ELSE IF initialized["distilbert"]
     THEN /\ StartParse(t, TRUE)
          /\ UNCHANGED initRuns
     ELSE /\ tasks' = [tasks EXCEPT ![t].pc = "load", ![t].inGetter = FALSE]
          /\ initRuns' = [initRuns EXCEPT !["distilbert"] = @ + 1]
  /\ UNCHANGED << instanceVars, requestVars, config, instances, initializationStatus, failing,
                  phase, warmup >>

\* parse of the text against the seed table seeds, from calculateIntentScores on;
\* no entity is found in the text
ParseWith(seeds) ==
  BoostThenResolve(Exclude(CalculateIntentScores(seeds, RaceEmbedding), RaceText, NoOptions),
                   << >>, RaceText, << "scorer" >>)

\* parse: await this.generateEmbedding(messageToClassify) returns and parse runs
\* to its return
RaceEmbedded(t) ==
  /\ tasks[t].pc = "embedding"
  /\ LET r == ParseWith(seedEmbeddings["distilbert"])
     IN tasks' = [tasks EXCEPT ![t].pc = "done", ![t].intent = r.intent,
                               ![t].confidence = r.confidence]
  /\ UNCHANGED << instanceVars, requestVars, config, instances, initializationStatus, failing,
                  initRuns, phase, warmup >>

NextRace ==
  \/ Listen
  \/ \E t \in TaskIds : RaceGetParser(t)
  \/ \E t \in TaskIds : RaceModelLoaded(t)
  \/ \E t \in TaskIds : RaceSeedEmbedded(t)
  \/ \E t \in TaskIds : RaceParse(t)
  \/ \E t \in TaskIds : RaceEmbedded(t)

SpecRace == InitRace /\ [][NextRace]_vars

\* what parse answers for the text when the seed table is the one initialize builds
Reference == ParseWith(SeedTable("spread", RaceIntents, "distilbert"))

\* task t has its result from the DistilBERT singleton, whose initialized flag
\* was set when its parse began
ParsedInitialized(t) ==
  tasks[t].pc = "done" /\ tasks[t].returned = "distilbert" /\ tasks[t].sawInitialized

\* C13: on an initialized instance with deterministic collaborators the intent and
\* the confidence of parse(text) depend on the text alone, whatever other request
\* ran before or runs at the same time.
C13_ResultDependsOnTextAlone ==
  \A t \in TaskIds :
     ParsedInitialized(t) =>
        (tasks[t].intent = Reference.intent /\ tasks[t].confidence = Reference.confidence)

\* the first request found the instance initialized, and its parse read the seed
\* table while the initialize() started by the parse of the second request was
\* rebuilding it: the two requests, for the same text, have different results
C13_Witness ==
  /\ ParsedInitialized(1)
  /\ tasks[2].pc = "done"
  /\ tasks[2].returned = "distilbert"
  /\ tasks[2].intent = Reference.intent
  /\ tasks[2].confidence = Reference.confidence
  /\ tasks[1].confidence # tasks[2].confidence

\* C14: all getParser calls for a name, overlapping ones included, return the same
\* instance, and the initialization of that instance is run at most once.
C14_GetParserIsIdempotent ==
  /\ initRuns["distilbert"] <= 1
  /\ \A t, u \in TaskIds :
        (tasks[t].returned # "" /\ tasks[u].returned # "") => tasks[t].returned = tasks[u].returned

\* both calls have returned the singleton and initialize() has run twice on it
C14_Witness ==
  /\ tasks[1].returned = "distilbert"
  /\ tasks[2].returned = "distilbert"
  /\ initRuns["distilbert"] = 2
  /\ initialized["distilbert"]

\* the first call has returned an emergency Fast parser, the second the singleton
C14_DifferentInstances ==
  ~(tasks[1].returned = "emergency" /\ tasks[2].returned = "distilbert")

\* C17: once the DistilBERT instance is initialized its seedEmbeddings is never
\* reassigned, cleared or appended to.
C17_SeedCacheIsReadOnly ==
  [][initialized["distilbert"] =>
       seedEmbeddings'["distilbert"] = seedEmbeddings["distilbert"]]_vars

\* the instance is initialized and a second computeSeedEmbeddings has replaced
\* the table by one it is still filling
C17_Witness ==
  /\ initialized["distilbert"]
  /\ \E t \in TaskIds : tasks[t].pc = "seed"
  /\ Len(seedEmbeddings["distilbert"]) < Len(RaceIntents)

(***************************************************************************)
(* A request whose collaborator may stay silent.  The event loop runs      *)
(* every continuation that is ready, so the steps of the program itself    *)
(* (getParser, the start of parse, the in-process entity extraction) are   *)
(* taken once they can be; nothing makes the embedder answer.  parse and   *)
(* generateEmbedding set no timer, so no step leaves the await other than  *)
(* the answer of the embedder.                                             *)
(***************************************************************************)
SpecHang ==
  /\ Init
  /\ [][NextParse]_vars
  /\ WF_vars(GetParser)
  /\ WF_vars(DistilParse)
  /\ WF_vars(DistilEntitiesReturn)

\* C19: a parse that waits for the embedder ends, with a result or with an error,
\* even if the embedder never answers.
C19_ParseNeverHangs == (pc = "embedding") ~> (pc \in {"done", "failed"})

\* parse is awaiting the embedding of the message
C19_Witness ==
  /\ pc = "embedding"
  /\ parser = "distilbert"
  /\ error = ""
  /\ messageEmbedding = << >>

(***************************************************************************)
(* The result of FastIntentParser.parse                                    *)
(***************************************************************************)
FastLabels == {"memory_store", "memory_retrieve", "command", "question", "greeting", "context"}

\* C21: FastIntentParser.parse returns a complete result for every message: no
\* error, an intent among its six labels, every score within [0, 1], a confidence
\* that is a number in (0, 1], and the intent 'question' when every score is 0.
C21_FastResultIsComplete ==
  FastDone =>
    /\ error = ""
    /\ resultParser = "fast"
    /\ intent \in FastLabels
    /\ Keys(scores) = FastLabels
    /\ \A i \in 1..Len(scores) : IsNum(scores[i].v) /\ 0 <= scores[i].v /\ scores[i].v <= Scale
    /\ IsNum(confidence) /\ 0 < confidence /\ confidence <= Scale
    /\ ((\A i \in 1..Len(scores) : scores[i].v = 0) => intent = "question")

\* a greeting whose three increments add up to 1.2 is scored 1 and returned with
\* that confidence
C21_Witness ==
  /\ FastDone
  /\ message.feats = {"greeting:hello", "fiveWords", "greetingStart"}
  /\ intent = "greeting"
  /\ confidence = Scale
  /\ Get(scores, "memory_retrieve") = 0

(***************************************************************************)
(* POST /intent.parse through the middleware chain of server.js            *)
(*                                                                         *)
(* A JSON value is held by its kind: "undefined" (the property is absent), *)
(* "null", "zero", "emptyString", "number" (non-zero), "true", "text" (a   *)
(* non-empty string of at most 10000 characters), "long" (a longer one),   *)
(* "array", "object".  req.message is the message property of an object    *)
(* payload.                                                                *)
(***************************************************************************)
Falsy(kind) == kind \in {"undefined", "null", "zero", "emptyString"}

TypeOf(kind) ==
  CASE kind \in {"emptyString", "text", "long"} -> "string"
    [] kind \in {"zero", "number"} -> "number"
    [] kind = "true" -> "boolean"
    [] kind = "undefined" -> "undefined"
    [] OTHER -> "object"

PayloadKinds == {"undefined", "null", "emptyString", "text", "number", "array", "object"}

MessageKinds ==
  {"undefined", "null", "emptyString", "zero", "number", "true", "object", "text", "long"}

HttpRequests ==
  { r \in [origin : {"none", "allowed", "other"},
           overLimit : BOOLEAN,
           authorization : {"none", "Bearer k", "k", "Bearer x"},
           envelope : {"valid", "noVersion", "badVersion", "badService", "noAction"},
           payload : PayloadKinds,
           message : MessageKinds] :
      r.payload # "object" => r.message = "undefined" }

InitHttp ==
  /\ InstancesConstructed
  /\ NoRequest
  /\ pc = "idle"
  /\ scores = << >>
  /\ intent = ""
  /\ confidence = Undefined
  /\ FactoryConstructed(DefaultConfig, {})
  /\ StreamIdle
  /\ env \in [apiKey : {"unset", "k"}, nodeEnv : {"development", "production"}]
  /\ req = NoHttpRequest
  /\ res = NoResponse
  /\ stage = "idle"
  /\ parserCalls = 0

otherVars == << instanceVars, parseVars, factoryVars, sseVars >>

otherExceptStream == << instanceVars, parseVars, factoryVars, httpVars >>

\* res.status(code).json({status: 'error', ...}) without calling next()
Reject(code) ==
  /\ res' = [code |-> code, status |-> "error"]
  /\ stage' = "responded"

Pass(to) ==
  /\ stage' = to
  /\ res' = res

\* a request arrives; no middleware keeps anything from one request for the next
\* except the count of the rate limiter, which req.overLimit stands for
Receive ==
  /\ stage = "idle"
  /\ req' \in HttpRequests
  /\ res' = NoResponse
  /\ parserCalls' = 0
  /\ stage' = "cors"
  /\ UNCHANGED << otherVars, env >>

\* cors: an Origin that is not allowed goes to the error handler, which finds none
\* of its keywords in 'Not allowed by CORS'
Cors ==
  /\ stage = "cors"
  /\ IF req.origin = "other" THEN Reject(500) ELSE Pass("limiter")
  /\ UNCHANGED << otherVars, env, req, parserCalls >>

\* express-rate-limit
Limiter ==
  /\ stage = "limiter"
  /\ IF req.overLimit THEN Reject(429) ELSE Pass("auth")
  /\ UNCHANGED << otherVars, env, req, parserCalls >>

\* authHeader.startsWith('Bearer ') ? authHeader.substring(7) : authHeader
Token(authHeader) ==
  IF authHeader = "Bearer k" THEN "k" ELSE IF authHeader = "Bearer x" THEN "x" ELSE authHeader

\* validateApiKey calls next()
ValidateApiKeyPasses(e, r) ==
  \/ e.apiKey = "unset" /\ e.nodeEnv = "development"
  \/ r.authorization # "none" /\ Token(r.authorization) = e.apiKey

ValidateApiKey ==
  /\ stage = "auth"
  /\ IF ValidateApiKeyPasses(env, req) THEN Pass("envelope") ELSE Reject(401)
  /\ UNCHANGED << otherVars, env, req, parserCalls >>

ValidateMCPRequest ==
  /\ stage = "envelope"
  /\ IF req.envelope # "valid" \/ Falsy(req.payload) THEN Reject(400) ELSE Pass("payload")
  /\ UNCHANGED << otherVars, env, req, parserCalls >>

\* payload.message
PayloadMessage(r) == IF r.payload = "object" THEN r.message ELSE "undefined"

ValidateIntentParseAnyType(r) == ~Falsy(PayloadMessage(r))

\* validateIntentParseRequest calls next()
ValidateIntentParsePasses(r) ==
  /\ ~Falsy(PayloadMessage(r))
  /\ TypeOf(PayloadMessage(r)) = "string"
  /\ PayloadMessage(r) # "long"

ValidateIntentParseRequest ==
  /\ stage = "payload"
  /\ IF ValidateIntentParsePasses(req) THEN Pass("handler") ELSE Reject(400)
  /\ UNCHANGED << otherVars, env, req, parserCalls >>

\* the route handler: parseIntent is called; its result is sent, or its error goes
\* to the error handler
Handler ==
  /\ stage = "handler"
  /\ parserCalls' = parserCalls + 1
  /\ \E threw \in BOOLEAN :
       res' = IF threw THEN [code |-> 500, status |-> "error"]
              ELSE [code |-> 200, status |-> "ok"]
  /\ stage' = "responded"
  /\ UNCHANGED << otherVars, env, req >>

NextHttp ==
  \/ Receive
  \/ Cors
  \/ Limiter
  \/ ValidateApiKey
  \/ ValidateMCPRequest
  \/ ValidateIntentParseRequest
  \/ Handler

SpecHttp == InitHttp /\ [][NextHttp]_vars

Responded == stage = "responded"

\* the envelope is valid and the payload carries no non-empty string message
NoStringMessage ==
  /\ req.envelope = "valid"
  /\ ~(TypeOf(PayloadMessage(req)) = "string" /\ PayloadMessage(req) # "emptyString")

AfterRules == ApplyRules(1, rawScores, entities, message.feats)

ExceedsOne(sc) == \E i \in 1..Len(sc) : Gt(sc[i].v, Scale)

\* C23: after applyEntityBoosting, if a score exceeded 1 after the rules then
\* every score has been divided by the largest one, which becomes exactly 1;
\* otherwise the scores are the ones the rules left.  For every text.
C23_NormalizedToUnitMax ==
  pc = "boosted" =>
    IF ExceedsOne(AfterRules)
    THEN \E j \in 1..Len(AfterRules) :
           /\ \A i \in 1..Len(AfterRules) : ~Gt(AfterRules[i].v, AfterRules[j].v)
           /\ scores[j].v = Scale
           /\ \A i \in 1..Len(AfterRules) :
                /\ scores[i].k = AfterRules[i].k
                /\ scores[i].v = Div(AfterRules[i].v, AfterRules[j].v)
    ELSE scores = AfterRules

\* 'open the latest news': command *= 1.25 stores NaN under a new key, the
\* maximum is NaN and web_search 0.8 * 1.5 = 1.2 is returned as it is
C23_Witness ==
  /\ pc = "boosted"
  /\ message.feats = {"actionVerb", "currentEvent"}
  /\ Get(rawScores, "web_search") = 800
  /\ ~Has(rawScores, "command")
  /\ Get(scores, "command") = NaN
  /\ Get(scores, "web_search") = 1200


\* C24: no rule eliminates a candidate: every intent with a strictly positive
\* score before boosting has a strictly positive score after the rules and
\* the normalisation; with highlighted text screen_intelligence is a small
\* positive value, never 0.
C24_PositiveStaysPositive ==
  pc = "boosted" =>
    /\ \A i \in 1..Len(rawScores) :
         Gt(rawScores[i].v, 0) => Gt(Get(scores, rawScores[i].k), 0)
    /\ "highlighted" \in message.feats =>
         /\ Gt(Get(scores, "screen_intelligence"), 0)
         /\ Lt(Get(scores, "screen_intelligence"), 10)

\* '[Selected text from ...] ...?': memory_store 0.3 is penalised to 0.09,
\* question and web_search are boosted, screen_intelligence is overwritten
\* with 0.001, and everything is divided by the maximum 2.1
C24_Witness ==
  /\ pc = "boosted"
  /\ message.feats = {"highlighted", "questionMark"}
  /\ Get(rawScores, "memory_store") = 300
  /\ Get(rawScores, "screen_intelligence") = 300
  /\ Get(rawScores, "web_search") = 800
  /\ Get(scores, "web_search") = Scale
  /\ Get(scores, "memory_store") = 42
  /\ Get(scores, "screen_intelligence") = 1


\* the intents whose score the n-th rule assigns
Touched(n, f) ==
  CASE n \in {1, 2} -> {"memory_store"}
    [] n = 3 -> {"memory_retrieve"}
    [] n = 4 -> {"command"}
    [] n = 5 -> IF "factual" \in f THEN {"web_search", "question"} ELSE {"question"}
    [] n \in 6..11 -> {"web_search"}
    [] n = 12 -> {"web_search", "command", "question"}
    [] n = 13 -> {"question", "web_search"}
    [] n = 14 -> {"greeting"}
    [] n = 15 -> {"screen_intelligence", "question", "web_search"}

\* the source order of the rules with the a-th and the b-th exchanged
Swap(a, b) == [n \in 1..15 |-> IF n = a THEN b ELSE IF n = b THEN a ELSE n]

RECURSIVE ApplyInOrder(_, _, _, _, _)
ApplyInOrder(order, i, sc, ents, f) ==
  IF i > Len(order) THEN sc
  ELSE ApplyInOrder(order, i + 1, Rule(order[i], sc, ents, f), ents, f)

\* applyEntityBoosting with its if-blocks in the given order
BoostInOrder(order, sc, ents, f) == Normalize(ApplyInOrder(order, 1, sc, ents, f))

\* a score object as the map it is: property name to value
AsMap(sc) == {<< sc[i].k, sc[i].v >> : i \in 1..Len(sc)}

\* the pairs of triggered rules on disjoint intents whose exchange keeps the
\* sequence of the rules on a same intent: no triggered rule between the two
\* assigns an intent of either
Commuting(ents, f) ==
  { ab \in (1..15) \X (1..15) :
      /\ ab[1] < ab[2]
      /\ Trigger(ab[1], ents, f)
      /\ Trigger(ab[2], ents, f)
      /\ Touched(ab[1], f) \cap Touched(ab[2], f) = {}
      /\ \A c \in (ab[1] + 1)..(ab[2] - 1) :
           Trigger(c, ents, f) =>
             Touched(c, f) \cap (Touched(ab[1], f) \cup Touched(ab[2], f)) = {} }

MaxOverSeeds(seedArrays, embedding) ==
  [i \in 1..Len(seedArrays) |->
     [k |-> seedArrays[i].k,
      v |-> MathMax([j \in 1..Len(seedArrays[i].vecs) |->
                       HybridCosineSimilarity(embedding, seedArrays[i].vecs[j])])]]

HybridSemanticDone == pc = "done" /\ resultParser = "hybrid-semantic"

\* C26: the semantic path of the Hybrid parser scores every intent by the
\* maximum cosine similarity between the message embedding and all the seed
\* texts of the intent, the three of web_search included.
C26_MaxOverAllSeeds ==
  HybridSemanticDone =>
    \E w \in Worlds :
      scores = MaxOverSeeds(SeedTable(w, HybridIntents, "hybrid"), messageEmbedding)

\* a message far from the first seed text of web_search and close to its
\* second: the score of web_search is the negative similarity to the first
C26_Witness ==
  /\ HybridSemanticDone
  /\ messageEmbedding = << 0 - 12, 0 - 35, 0 >>
  /\ Lt(Get(scores, "web_search"), 0)
  /\ \E w \in Worlds :
       /\ scores = ClassifyWithEmbedding(SeedTable(w, HybridIntents, "hybrid"),
                                         messageEmbedding)
       /\ Gt(Get(MaxOverSeeds(SeedTable(w, HybridIntents, "hybrid"), messageEmbedding),
                 "web_search"), 900)


(***************************************************************************)
(* The status listParsers reports (SpecFactory)                            *)
(***************************************************************************)
\* listParsers(): the status of every enabled implementation
ListParsers == [p \in {q \in ParserNames : Enabled(config, q)} |-> initializationStatus[p]]

\* an initialize() of the singleton p has been called and has not ended
InFlight(p) == warmup[p] = "pending"

\* C27: the status listParsers reports is the lifecycle state: 'not_started'
\* exactly while there is no instance, 'initializing' only while an
\* initialize() is in flight, 'ready' only after initialize() has succeeded; a
\* failed initialization does not leave 'initializing' behind.
C27_StatusMatchesLifecycle ==
  \A p \in DOMAIN ListParsers :
    /\ (ListParsers[p] = "not_started") <=> ~instances[p]
    /\ (ListParsers[p] = "initializing") => InFlight(p)
    /\ (ListParsers[p] = "ready") => initialized[p]

\* the Original parser failed to load during warmup() and no request has been
\* served since: nothing is in flight and its status is still 'initializing'
C27_Witness ==
  /\ phase = "listening"
  /\ WarmupCalled
  /\ tasks[1].pc = "idle"
  /\ failing = {"original"}
  /\ config.useOriginal
  /\ \A p \in ParserNames : ~InFlight(p)
  /\ ListParsers["original"] = "initializing"
  /\ initRuns["original"] = 1


(***************************************************************************)
(* What getParser resolves with while another request initializes the      *)
(* same singleton (SpecRace)                                               *)
(***************************************************************************)
\* getParser of request t has resolved with one of the singletons
ResolvedWithSingleton(t) == tasks[t].pc = "returned" /\ tasks[t].returned \in ParserNames

\* C28: getParser and the getters resolve only with an instance whose
\* initialize() has completed successfully, also for a call that arrives while
\* the initialization started by another call is in flight.
C28_ResolvesWithInitializedInstance ==
  \A t \in TaskIds : ResolvedWithSingleton(t) => initialized[tasks[t].returned]

\* the first request waits in getDistilBertParser for the seed embeddings, the
\* second has been handed the instance the first created
C28_Witness ==
  /\ tasks[1].pc = "seed"
  /\ tasks[1].inGetter
  /\ ResolvedWithSingleton(2)
  /\ tasks[2].returned = "distilbert"
  /\ ~initialized["distilbert"]
  /\ initializationStatus["distilbert"] = "initializing"
  /\ initRuns["distilbert"] = 1


(***************************************************************************)
(* The keys of the scores DistilBERT parse returns (Spec)                  *)
(***************************************************************************)
\* excludeScreenIntelligence of parse
ExcludeScreenIntelligence == message.marker \/ options.excludeScreenIntelligence

\* C29: the booster and the exclusion step preserve the key set: every key of
\* the scores DistilBERT parse returns is an intent with seed examples, no rule
\* adds an entry the scorer did not produce, and screen_intelligence is absent
\* whenever it was excluded for the request.
C29_KeySetPreserved ==
  DistilDone =>
    /\ Keys(scores) \subseteq IntentLabels
    /\ Keys(scores) \subseteq Keys(rawScores)
    /\ ExcludeScreenIntelligence => ~Has(scores, "screen_intelligence")

\* screen_intelligence was excluded and deleted, and the highlighted-text rule
\* of the booster has put it back with 0.001
C29_Witness ==
  /\ DistilDone
  /\ ExcludeScreenIntelligence
  /\ Truthy(Get(rawScores, "screen_intelligence"))
  /\ "highlighted" \in message.feats
  /\ Has(scores, "screen_intelligence")
  /\ Get(scores, "screen_intelligence") = 1
  /\ scores[Len(scores)].k = "screen_intelligence"


(***************************************************************************)
(* POST /general.answer.stream: the handler of routes/general.js and       *)
(* LLMService.generateAnswerStream                                         *)
(*                                                                         *)
(* The model server answers with lines of JSON.  A line is held by its     *)
(* kind: "a" and "b" carry the response 'a' and 'b', "done" carries done   *)
(* and an empty response, "bdone" carries the response 'b' and done, "bad" *)
(* is not JSON.  The text of the stream is a sequence of pieces: every     *)
(* line is two pieces followed by a newline, so that a chunk may end       *)
(* inside a line; the newline of the last line may be missing.  The stream *)
(* then emits 'end' or 'error'.  One request is followed.                  *)
(***************************************************************************)
MaxLines == 3

MaxChunk == 4

LineKinds == {"a", "b", "done", "bdone", "bad"}

NewLine == [kind |-> "nl", part |-> 0]

Piece(kind, part) == [kind |-> kind, part |-> part]

RECURSIVE Render(_, _, _)
\* the text of the lines from the i-th on
Render(lines, i, terminated) ==
  IF i > Len(lines) THEN << >>
  ELSE << Piece(lines[i], 1), Piece(lines[i], 2) >>
         \o (IF i < Len(lines) \/ terminated THEN << NewLine >> ELSE << >>)
         \o Render(lines, i + 1, terminated)

Scripts == UNION {[1..n -> LineKinds] : n \in 0..MaxLines}

\* what generateAnswerStream meets: LLM_ENABLED off, an initialize() that
\* throws, an axios.post that throws, or a response stream
Upstreams ==
  { [NoUpstream EXCEPT !.mode = "stream", !.text = Render(lines, 1, terminated),
                       !.closing = closing] :
      lines \in Scripts, terminated \in BOOLEAN, closing \in {"end", "error"} }
  \cup { [NoUpstream EXCEPT !.mode = m, !.text = << "p", "q" >>] :
           m \in {"placeholder", "postFails"} }
  \cup { [NoUpstream EXCEPT !.mode = "initFails"] }

InitStream ==
  /\ ServerIdle
  /\ InstancesConstructed
  /\ NoRequest
  /\ pc = "idle"
  /\ scores = << >>
  /\ intent = ""
  /\ confidence = Undefined
  /\ FactoryConstructed(DefaultConfig, {})

Event(type, token, count, answer) ==
  [type |-> type, token |-> token, tokenCount |-> count, answer |-> answer]

\* what the handler and its callback work on
Handling ==
  [events |-> events, ended |-> ended, lateWrites |-> lateWrites,
   fullAnswer |-> fullAnswer, tokenCount |-> tokenCount, settled |-> upstream.settled]

\* res.write(event): after res.end() nothing is put on the response
Write(st, event) ==
  IF st.ended THEN [st EXCEPT !.lateWrites = @ + 1]
  ELSE [st EXCEPT !.events = Append(@, event)]

\* the callback the handler passes to generateAnswerStream
OnToken(st, token) ==
  LET counted == [st EXCEPT !.fullAnswer = Append(@, token), !.tokenCount = @ + 1]
  IN Write(counted, Event("token", token, counted.tokenCount, << >>))

\* resolve() and reject(err) settle a promise once
Settle(st, outcome) == IF st.settled = "pending" THEN [st EXCEPT !.settled = outcome] ELSE st

RECURSIVE Split(_, _, _, _)
\* text.split('\n'): the pieces between the newlines, the last entry included
Split(text, i, line, lines) ==
  IF i > Len(text) THEN Append(lines, line)
  ELSE IF text[i] = NewLine THEN Split(text, i + 1, << >>, Append(lines, line))
  ELSE Split(text, i + 1, Append(line, text[i]), lines)

\* JSON.parse(line) throws
ParseThrows(line) ==
  \/ Len(line) # 2
  \/ line[1].kind # line[2].kind
  \/ << line[1].part, line[2].part >> # << 1, 2 >>
  \/ line[1].kind = "bad"

\* data.response of a parsed line, "" being falsy
Response(line) ==
  CASE line[1].kind = "a" -> "a"
    [] line[1].kind \in {"b", "bdone"} -> "b"
    [] OTHER -> ""

DoneFlag(line) == line[1].kind \in {"done", "bdone"}

\* the body of the for loop of the 'data' listener for one line
OnLine(st, line) ==
  IF line = << >> \/ ParseThrows(line) THEN st
  ELSE LET sent == IF Response(line) # "" THEN OnToken(st, Response(line)) ELSE st
       IN IF DoneFlag(line) THEN Settle(sent, "resolved") ELSE sent

RECURSIVE OnLines(_, _, _)
OnLines(st, lines, i) ==
  IF i > Len(lines) THEN st ELSE OnLines(OnLine(st, lines[i]), lines, i + 1)

\* the handler and its callback take the state st
Handled(st) ==
  /\ events' = st.events
  /\ lateWrites' = st.lateWrites
  /\ fullAnswer' = st.fullAnswer
  /\ tokenCount' = st.tokenCount

\* the awaiting handler resumes as soon as the promise it awaits settles
Resumes(settled) ==
  route' = IF route = "awaiting" /\ settled # "pending" THEN settled ELSE route

\* the handler up to its await: the headers, the start event and the call of
\* generateAnswerStream, which runs to its first await
AnswerStream ==
  /\ route = "idle"
  /\ upstream' \in Upstreams
  /\ events' = << Event("start", "", 0, << >>) >>
  /\ fullAnswer' = << >>
  /\ tokenCount' = 0
  /\ buffer' = << >>
  /\ route' = "awaiting"
  /\ UNCHANGED << ended, lateWrites, otherExceptStream >>

\* this.initialize() throws: generateAnswerStream rejects
LlmInitializeThrows ==
  /\ route = "awaiting"
  /\ upstream.mode = "initFails"
  /\ upstream.settled = "pending"
  /\ upstream' = [upstream EXCEPT !.settled = "rejected"]
  /\ Resumes("rejected")
  /\ UNCHANGED << events, ended, lateWrites, fullAnswer, tokenCount, buffer, otherExceptStream >>

\* the placeholder answer, or the message of the error axios.post threw, is
\* handed to the callback character by character, a timer between two of them
CharacterTokens ==
  /\ route = "awaiting"
  /\ upstream.mode \in {"placeholder", "postFails"}
  /\ upstream.settled = "pending"
  /\ IF upstream.text = << >>
     THEN /\ upstream' = [upstream EXCEPT !.settled = "resolved"]
          /\ Resumes("resolved")
          /\ UNCHANGED << events, lateWrites, fullAnswer, tokenCount >>
     ELSE /\ Handled(OnToken(Handling, Head(upstream.text)))
          /\ upstream' = [upstream EXCEPT !.text = Tail(@)]
          /\ UNCHANGED route
  /\ UNCHANGED << ended, buffer, otherExceptStream >>

\* response.data emits 'data' with the next n pieces of the text
OnData ==
  /\ upstream.mode = "stream"
  /\ route \in {"awaiting", "ended"}
  /\ \E n \in 1..MaxChunk :
       /\ n <= Len(upstream.text)
       /\ LET lines == Split(buffer \o SubSeq(upstream.text, 1, n), 1, << >>, << >>)
              complete == SubSeq(lines, 1, Len(lines) - 1)
              after == OnLines(Handling, complete, 1)
          IN /\ buffer' = lines[Len(lines)]
             /\ Handled(after)
             /\ upstream' = [upstream EXCEPT !.text = SubSeq(@, n + 1, Len(@)),
                                             !.settled = after.settled]
             /\ Resumes(after.settled)
  /\ UNCHANGED << ended, otherExceptStream >>

\* response.data emits 'end'
OnEnd ==
  /\ upstream.mode = "stream"
  /\ route \in {"awaiting", "ended"}
  /\ upstream.text = << >>
  /\ upstream.closing = "end"
  /\ ~upstream.closed
  /\ upstream' = [upstream EXCEPT !.closed = TRUE, !.settled = Settle(Handling, "resolved").settled]
  /\ Resumes("resolved")
  /\ UNCHANGED << events, ended, lateWrites, fullAnswer, tokenCount, buffer, otherExceptStream >>

\* response.data emits 'error'
OnError ==
  /\ upstream.mode = "stream"
  /\ route \in {"awaiting", "ended"}
  /\ upstream.text = << >>
  /\ upstream.closing = "error"
  /\ ~upstream.closed
  /\ upstream' = [upstream EXCEPT !.closed = TRUE, !.settled = Settle(Handling, "rejected").settled]
  /\ Resumes("rejected")
  /\ UNCHANGED << events, ended, lateWrites, fullAnswer, tokenCount, buffer, otherExceptStream >>

\* the await returns: the done event and res.end()
SendDone ==
  /\ route = "resolved"
  /\ Handled(Write(Handling, Event("done", "", tokenCount, fullAnswer)))
  /\ ended' = TRUE
  /\ route' = "ended"
  /\ UNCHANGED << buffer, upstream, otherExceptStream >>

\* the await throws: the catch block sends the error event and res.end()
SendError ==
  /\ route = "rejected"
  /\ Handled(Write(Handling, Event("error", "", 0, << >>)))
  /\ ended' = TRUE
  /\ route' = "ended"
  /\ UNCHANGED << buffer, upstream, otherExceptStream >>

NextStream ==
  \/ AnswerStream
  \/ LlmInitializeThrows
  \/ CharacterTokens
  \/ OnData
  \/ OnEnd
  \/ OnError
  \/ SendDone
  \/ SendError

SpecStream == InitStream /\ [][NextStream]_vars

Terminal(e) == e.type \in {"done", "error"}

\* the tokens of the token events before the i-th event
TokensBefore(i) == [j \in 1..(i - 2) |-> events[j + 1].token]

\* what reaches the client: 'start', numbered 'token' events, one terminal event
\* carrying what came before it, and the end of the response with it
DeliveredSequence ==
  /\ route # "idle" => (Len(events) >= 1 /\ events[1].type = "start")
  /\ \A i \in 2..Len(events) :
       /\ events[i].type # "start"
       /\ ~Terminal(events[i - 1])
       /\ events[i].type = "token" => events[i].tokenCount = i - 1
       /\ events[i].type = "done" =>
            (events[i].answer = TokensBefore(i) /\ events[i].tokenCount = i - 2)
  /\ ended <=> (Len(events) >= 2 /\ Terminal(events[Len(events)]))

\* C30: the events of a /general.answer.stream response are one 'start', then
\* 'token' events whose tokenCount counts up from 1, then one 'done' or
\* 'error', after which the response is ended and nothing more is written; a
\* 'done' carries the concatenation and the number of the tokens before it.
\* For every chunking of the upstream stream, data after the done line
\* included.
C30_EventSequence == DeliveredSequence /\ lateWrites = 0

\* the line marked done came in one chunk and a line with a token in a later
\* one: the done event was sent, the response ended, and the token was
\* written to the ended response
C30_Witness ==
  /\ route = "ended"
  /\ ended
  /\ events = << Event("start", "", 0, << >>), Event("token", "a", 1, << >>),
                 Event("done", "", 1, << "a" >>) >>
  /\ fullAnswer = << "a", "b" >>
  /\ tokenCount = 2
  /\ lateWrites = 1

====
